---------------------------- MODULE Spec2Model ----------------------------
(***************************************************************************)
(* Bone-mapping and animation-retargeting engine of CrossRig.              *)
(*                                                                         *)
(* A bone name is a string; where the code inspects it character by        *)
(* character it is read through Chars, which gives its characters as a     *)
(* sequence of one-character strings: "arm.L" is <<"a","r","m",".","L">>.  *)
(* Floating point confidences are exact rationals [n |-> , d |-> ] in      *)
(* lowest terms.  An Optional[str] is [found |-> BOOLEAN, value |-> name]. *)
(***************************************************************************)
EXTENDS Integers, Sequences, FiniteSets, TLC

(***************************************************************************)
(* Bounds of the model.                                                    *)
(***************************************************************************)
\* last tick of the clock (datetime.now) at which an operation starts; the
\* preset is created at tick 1 and the clock ticks once per operation
MaxClock == 3

(***************************************************************************)
(* Rational arithmetic for the float confidences.                          *)
(***************************************************************************)
RECURSIVE GCD(_, _)
GCD(a, b) == IF b = 0 THEN a ELSE GCD(b, a % b)

Abs(x) == IF x < 0 THEN -x ELSE x

Frac(n, d) ==
    LET g == GCD(Abs(n), d)
    IN  IF n = 0 THEN [n |-> 0, d |-> 1] ELSE [n |-> n \div g, d |-> d \div g]

FracAdd(a, b) == Frac(a.n * b.d + b.n * a.d, a.d * b.d)
FracMul(a, b) == Frac(a.n * b.n, a.d * b.d)
FracLT(a, b) == a.n * b.d < b.n * a.d
FracLE(a, b) == a.n * b.d <= b.n * a.d

Zero == Frac(0, 1)
One == Frac(1, 1)

(***************************************************************************)
(* Python string helpers over character sequences.                         *)
(***************************************************************************)
\* the characters of every bone name of the model
Chars ==
    ("Arm_L" :> <<"A","r","m","_","L">>) @@
    ("def-arm" :> <<"d","e","f","-","a","r","m">>) @@
    ("leg" :> <<"l","e","g">>) @@
    ("arm_l" :> <<"a","r","m","_","l">>) @@
    ("arm.R" :> <<"a","r","m",".","R">>) @@
    ("Hips" :> <<"H","i","p","s">>) @@
    ("Spine" :> <<"S","p","i","n","e">>) @@
    ("LeftArm" :> <<"L","e","f","t","A","r","m">>) @@
    ("hips" :> <<"h","i","p","s">>) @@
    ("spine_01" :> <<"s","p","i","n","e","_","0","1">>) @@
    ("upper_arm.L" :> <<"u","p","p","e","r","_","a","r","m",".","L">>) @@
    ("jaw" :> <<"j","a","w">>) @@
    ("neck" :> <<"n","e","c","k">>) @@
    ("hip" :> <<"h","i","p">>) @@
    ("preset" :> <<"p","r","e","s","e","t">>) @@
    ("SourceArmature" :> <<"S","o","u","r","c","e","A","r","m","a","t","u","r","e">>) @@
    ("TargetArmature" :> <<"T","a","r","g","e","t","A","r","m","a","t","u","r","e">>) @@
    ("  " :> <<" "," ">>) @@
    ("" :> <<>>)

UpperCase ==
    ("A" :> "a") @@ ("H" :> "h") @@ ("L" :> "l") @@ ("R" :> "r") @@ ("S" :> "s")

\* str.lower() on one character
LowerChar(c) == IF c \in DOMAIN UpperCase THEN UpperCase[c] ELSE c

\* str.lower()
Lower(s) == [i \in 1..Len(s) |-> LowerChar(s[i])]

\* str.startswith(prefix)
StartsWith(s, p) == Len(p) <= Len(s) /\ SubSeq(s, 1, Len(p)) = p

\* str.endswith(suffix)
EndsWith(s, p) == Len(p) <= Len(s) /\ SubSeq(s, Len(s) - Len(p) + 1, Len(s)) = p

\* s[k:]
DropFirst(s, k) == SubSeq(s, k + 1, Len(s))

\* s[:-k]
DropLast(s, k) == SubSeq(s, 1, Len(s) - k)

(***************************************************************************)
(* Bone Name Normalizer: core/use_cases/auto_map_bones.py                  *)
(***************************************************************************)
\* the ordered prefix list of normalize_bone_name
Prefixes ==
    << <<"m","i","x","a","m","o","r","i","g",":">>,
       <<"d","e","f","-">>,
       <<"m","c","h","-">>,
       <<"o","r","g","-">>,
       <<"c","t","r","l","-">>,
       <<"i","k","-">>,
       <<"f","k","-">>,
       <<"r","o","o","t",".">>,
       <<"r","i","g",".">> >>

\* the prefix list written with the separators already normalized
RECURSIVE StripFirstPrefixMutant(_, _)
StripFirstPrefixMutant(name, k) ==
    IF k > Len(Prefixes) THEN name
    ELSE IF StartsWith(name, [i \in 1..Len(Prefixes[k]) |->
                                 IF Prefixes[k][i] \in {"-", ":", "."} THEN "_"
                                 ELSE Prefixes[k][i]])
         THEN DropFirst(name, Len(Prefixes[k]))
         ELSE StripFirstPrefixMutant(name, k + 1)

\* for prefix in prefixes: if name.startswith(prefix.lower()): strip it; break
RECURSIVE StripFirstPrefix(_, _)
StripFirstPrefix(name, k) ==
    IF k > Len(Prefixes) THEN name
    ELSE IF StartsWith(name, Lower(Prefixes[k]))
         THEN DropFirst(name, Len(Prefixes[k]))
         ELSE StripFirstPrefix(name, k + 1)

\* re.sub(r'[-:. ]', '_', name)
NormalizeSeparators(s) ==
    [i \in 1..Len(s) |-> IF s[i] \in {"-", ":", ".", " "} THEN "_" ELSE s[i]]

\* re.sub(r'_+', '_', name)
RECURSIVE CollapseUnderscores(_)
CollapseUnderscores(s) ==
    IF Len(s) <= 1 THEN s
    ELSE IF s[1] = "_" /\ s[2] = "_"
         THEN CollapseUnderscores(Tail(s))
         ELSE <<s[1]>> \o CollapseUnderscores(Tail(s))

\* name.strip('_')
RECURSIVE StripUnderscores(_)
StripUnderscores(s) ==
    IF s = <<>> THEN s
    ELSE IF s[1] = "_" THEN StripUnderscores(Tail(s))
    ELSE IF s[Len(s)] = "_" THEN StripUnderscores(DropLast(s, 1))
    ELSE s

normalize_bone_name(bone_name) ==
    StripUnderscores(
        CollapseUnderscores(
            NormalizeSeparators(
                StripFirstPrefix(Lower(bone_name), 1))))

\* the characters of the class [._-]
SideSeparators == {".", "_", "-"}

\* re.search(r'[._-]<token>$', name)
HasSideSuffix(name, token) ==
    /\ Len(name) >= Len(token) + 1
    /\ EndsWith(name, token)
    /\ name[Len(name) - Len(token)] \in SideSeparators

\* re.search(r'^<token>[._-]', name)
HasSidePrefix(name, token) ==
    /\ Len(name) >= Len(token) + 1
    /\ StartsWith(name, token)
    /\ name[Len(token) + 1] \in SideSeparators

TokL == <<"l">>
TokLeft == <<"l","e","f","t">>
TokR == <<"r">>
TokRight == <<"r","i","g","h","t">>

\* the suffix patterns of both sides before the prefix patterns
normalize_side_suffixMutant(bone_name) ==
    LET name == Lower(bone_name)
    IN  IF HasSideSuffix(name, TokL) THEN [base |-> DropLast(name, 2), side |-> "L"]
        ELSE IF HasSideSuffix(name, TokLeft) THEN [base |-> DropLast(name, 5), side |-> "L"]
        ELSE IF HasSideSuffix(name, TokR) THEN [base |-> DropLast(name, 2), side |-> "R"]
        ELSE IF HasSideSuffix(name, TokRight) THEN [base |-> DropLast(name, 6), side |-> "R"]
        ELSE IF HasSidePrefix(name, TokL) THEN [base |-> DropFirst(name, 2), side |-> "L"]
        ELSE IF HasSidePrefix(name, TokLeft) THEN [base |-> DropFirst(name, 5), side |-> "L"]
        ELSE IF HasSidePrefix(name, TokR) THEN [base |-> DropFirst(name, 2), side |-> "R"]
        ELSE IF HasSidePrefix(name, TokRight) THEN [base |-> DropFirst(name, 6), side |-> "R"]
        ELSE [base |-> name, side |-> ""]

\* left_patterns, then right_patterns, each list in its order; the first
\* pattern that matches is removed with re.sub
normalize_side_suffix(bone_name) ==
    LET name == Lower(bone_name)
    IN  IF HasSideSuffix(name, TokL) THEN [base |-> DropLast(name, 2), side |-> "L"]
        ELSE IF HasSideSuffix(name, TokLeft) THEN [base |-> DropLast(name, 5), side |-> "L"]
        ELSE IF HasSidePrefix(name, TokL) THEN [base |-> DropFirst(name, 2), side |-> "L"]
        ELSE IF HasSidePrefix(name, TokLeft) THEN [base |-> DropFirst(name, 5), side |-> "L"]
        ELSE IF HasSideSuffix(name, TokR) THEN [base |-> DropLast(name, 2), side |-> "R"]
        ELSE IF HasSideSuffix(name, TokRight) THEN [base |-> DropLast(name, 6), side |-> "R"]
        ELSE IF HasSidePrefix(name, TokR) THEN [base |-> DropFirst(name, 2), side |-> "R"]
        ELSE IF HasSidePrefix(name, TokRight) THEN [base |-> DropFirst(name, 6), side |-> "R"]
        ELSE [base |-> name, side |-> ""]

(***************************************************************************)
(* Similarity Scorer                                                       *)
(***************************************************************************)
Min3(a, b, c) ==
    IF a <= b /\ a <= c THEN a ELSE IF b <= c THEN b ELSE c

Max2(a, b) == IF a >= b THEN a ELSE b

\* one row of the distance matrix, filled left to right from the row above
\* it; column j of a row is its entry j + 1, and `row` holds the columns
\* filled so far
RECURSIVE LevenshteinRow(_, _, _, _)
LevenshteinRow(above, row, c, str2) ==
    IF Len(row) > Len(str2) THEN row
    ELSE LET j == Len(row)
         IN  CHOOSE final \in
                 { LevenshteinRow(above, nxt, c, str2) :
                   nxt \in { Append(row,
                                 Min3(above[j + 1] + 1,
                                      row[j] + 1,
                                      above[j] + (IF c = str2[j] THEN 0 ELSE 1))) } } :
                 TRUE

\* the rows of the matrix from row i on, given row i - 1
RECURSIVE LevenshteinRows(_, _, _, _)
LevenshteinRows(above, i, str1, str2) ==
    IF i > Len(str1) THEN above
    ELSE CHOOSE final \in
             { LevenshteinRows(nxt, i + 1, str1, str2) :
               nxt \in { LevenshteinRow(above, <<i>>, str1[i], str2) } } : TRUE

\* the distance matrix of calculate_similarity, entry [len1][len2]
Levenshtein(str1, str2) ==
    LevenshteinRows([j \in 1..(Len(str2) + 1) |-> j - 1], 1, str1, str2)[Len(str2) + 1]

\* the distance divided by len1 instead of max_len
calculate_similarityMutant(str1, str2) ==
    IF str1 = str2 THEN One
    ELSE IF str1 = <<>> \/ str2 = <<>> THEN Zero
    ELSE Frac(Len(str1) - Levenshtein(str1, str2), Len(str1))

calculate_similarity(str1, str2) ==
    IF str1 = str2 THEN One
    ELSE IF str1 = <<>> \/ str2 = <<>> THEN Zero
    ELSE LET max_len == Max2(Len(str1), Len(str2))
         IN  Frac(max_len - Levenshtein(str1, str2), max_len)

(***************************************************************************)
(* Auto-Mapper: find_best_match                                            *)
(***************************************************************************)
\* Python's None / a str, as returned by an Optional[str] function
None == [found |-> FALSE, value |-> ""]
Some(x) == [found |-> TRUE, value |-> x]

\* truth value of an Optional[str]: None and '' are both falsy
Truthy(opt) == opt.found /\ opt.value # ""

\* `x in lst` for a Python list
InList(x, lst) == \E i \in 1..Len(lst) : lst[i] = x

C100 == Frac(1, 1)
C095 == Frac(95, 100)
C090 == Frac(9, 10)
C060 == Frac(6, 10)
C025 == Frac(25, 100)
C050 == Frac(5, 10)

\* Strategy 2 left out
CaseInsensitiveMatchMutant(source_lower, target_bones, i) == None

\* Strategy 2: the first target equal to the source ignoring case
RECURSIVE CaseInsensitiveMatch(_, _, _)
CaseInsensitiveMatch(source_lower, target_bones, i) ==
    IF i > Len(target_bones) THEN None
    ELSE IF Lower(Chars[target_bones[i]]) = source_lower THEN Some(target_bones[i])
    ELSE CaseInsensitiveMatch(source_lower, target_bones, i + 1)

\* Strategy 3, one candidate: base names match and sides match (or no side)
NormalizedNameMatches(source_normalized, target) ==
    LET src == normalize_side_suffix(source_normalized)
        tgt == normalize_side_suffix(normalize_bone_name(Chars[target]))
    IN  /\ src.base = tgt.base
        /\ (src.side = tgt.side \/ src.side = "" \/ tgt.side = "")

\* Strategy 3 loop: confidence 0.9 > best_confidence only for the first hit
RECURSIVE NormalizedMatch(_, _, _)
NormalizedMatch(source_normalized, target_bones, i) ==
    IF i > Len(target_bones) THEN None
    ELSE IF NormalizedNameMatches(source_normalized, target_bones[i])
         THEN Some(target_bones[i])
         ELSE NormalizedMatch(source_normalized, target_bones, i + 1)

\* the opposite side is not penalized
SimilarityConfidenceMutant(source_normalized, target) ==
    FracAdd(C060, FracMul(calculate_similarity(source_normalized,
                                               normalize_bone_name(Chars[target])),
                          C025))

\* Strategy 4, one candidate: 0.6 + similarity * 0.25, the similarity halved
\* when both sides are known and differ
SimilarityConfidence(source_normalized, target) ==
    LET source_side == normalize_side_suffix(source_normalized).side
        target_normalized == normalize_bone_name(Chars[target])
        target_side == normalize_side_suffix(target_normalized).side
        similarity == calculate_similarity(source_normalized, target_normalized)
        penalized ==
            IF source_side # "" /\ target_side # "" /\ source_side # target_side
            THEN FracMul(similarity, C050)
            ELSE similarity
    IN  FracAdd(C060, FracMul(penalized, C025))

\* Strategy 4 loop: keep the candidate whose confidence is strictly greater
RECURSIVE SimilarityMatch(_, _, _, _)
SimilarityMatch(source_normalized, target_bones, i, best) ==
    IF i > Len(target_bones) THEN best
    ELSE LET confidence == SimilarityConfidence(source_normalized, target_bones[i])
         IN  SimilarityMatch(source_normalized, target_bones, i + 1,
                 IF FracLT(best.confidence, confidence)
                 THEN [match |-> Some(target_bones[i]), confidence |-> confidence]
                 ELSE best)

NoMatch == [match |-> None, confidence |-> Zero]

\* if best_confidence >= threshold: return best, else (None, 0.0)
AboveThreshold(best, threshold) ==
    IF FracLE(threshold, best.confidence) THEN best ELSE NoMatch

find_best_match(source_bone, target_bones, threshold) ==
    IF target_bones = <<>> THEN NoMatch
    ELSE IF InList(source_bone, target_bones)
    THEN [match |-> Some(source_bone), confidence |-> C100]
    ELSE LET ci == CaseInsensitiveMatch(Lower(Chars[source_bone]), target_bones, 1)
             source_normalized == normalize_bone_name(Chars[source_bone])
             nm == NormalizedMatch(source_normalized, target_bones, 1)
         IN  IF ci.found THEN [match |-> ci, confidence |-> C095]
             ELSE IF nm.found
             THEN AboveThreshold([match |-> nm, confidence |-> C090], threshold)
             ELSE AboveThreshold(
                      SimilarityMatch(source_normalized, target_bones, 1, NoMatch),
                      threshold)

(***************************************************************************)
(* Mapping Model: core/domain/bone_mapping_entities.py                     *)
(***************************************************************************)
BoneMapping(source_bone, target_bone, confidence) ==
    [source_bone |-> source_bone, target_bone |-> target_bone,
     confidence |-> confidence]

\* BoneMappingPreset.__post_init__: the dates default to now()
BoneMappingPreset(name, src, tgt, mappings, description, created_date, modified_date, sbc, tbc, mc, amc, version, clock) ==
    LET created == IF created_date = 0 THEN clock ELSE created_date
    IN  [name |-> name,
         source_armature_name |-> src,
         target_armature_name |-> tgt,
         mappings |-> mappings,
         description |-> description,
         created_date |-> created,
         modified_date |-> IF modified_date = 0 THEN created ELSE modified_date,
         source_bone_count |-> sbc,
         target_bone_count |-> tbc,
         mapped_count |-> mc,
         auto_mapped_count |-> amc,
         version |-> version]

\* number of list entries that satisfy a test
RECURSIVE CountAuto(_)
CountAuto(mappings) ==
    IF mappings = <<>> THEN 0
    ELSE (IF FracLT(Head(mappings).confidence, C100) THEN 1 ELSE 0)
         + CountAuto(Tail(mappings))

update_metadata(p, clock) ==
    [p EXCEPT !.mapped_count = Len(p.mappings),
              !.auto_mapped_count = CountAuto(p.mappings),
              !.modified_date = clock]

\* index of the first mapping with this source bone, 0 when there is none
RECURSIVE IndexOfSource(_, _, _)
IndexOfSource(mappings, source_bone, i) ==
    IF i > Len(mappings) THEN 0
    ELSE IF mappings[i].source_bone = source_bone THEN i
    ELSE IndexOfSource(mappings, source_bone, i + 1)

find_target_bone(p, source_bone) ==
    LET i == IndexOfSource(p.mappings, source_bone, 1)
    IN  IF i = 0 THEN None ELSE Some(p.mappings[i].target_bone)

\* the mapping appended whether or not the source bone has one
add_mappingMutant(p, source_bone, target_bone, confidence, clock) ==
    update_metadata(
        [p EXCEPT !.mappings =
            Append(@, BoneMapping(source_bone, target_bone, confidence))],
        clock)

add_mapping(p, source_bone, target_bone, confidence, clock) ==
    LET i == IndexOfSource(p.mappings, source_bone, 1)
        m == BoneMapping(source_bone, target_bone, confidence)
    IN  update_metadata(
            [p EXCEPT !.mappings = IF i = 0 THEN Append(@, m)
                                   ELSE [@ EXCEPT ![i] = m]],
            clock)

RECURSIVE WithoutSource(_, _)
WithoutSource(mappings, source_bone) ==
    IF mappings = <<>> THEN <<>>
    ELSE IF Head(mappings).source_bone = source_bone
         THEN WithoutSource(Tail(mappings), source_bone)
         ELSE <<Head(mappings)>> \o WithoutSource(Tail(mappings), source_bone)

remove_mapping(p, source_bone, clock) ==
    update_metadata([p EXCEPT !.mappings = WithoutSource(@, source_bone)], clock)

(***************************************************************************)
(* Auto-Mapper: auto_map_bones                                             *)
(***************************************************************************)
\* bone names of the source skeleton
SourcePool == { "Arm_L", "def-arm", "leg" }

\* bone names of the target skeleton
TargetPool == { "arm_l", "arm.R", "leg" }

\* auto_map_threshold values
Thresholds == { C060, Frac(8, 10) }

\* confidences of the mappings a caller adds by hand
ManualConfidences == { C100, C050 }

IsInjective(lst) ==
    \A i, j \in 1..Len(lst) : i # j => lst[i] # lst[j]

\* every list of distinct elements of S
InjectiveLists(S) ==
    { l \in UNION { [1..k -> S] : k \in 0..Cardinality(S) } : IsInjective(l) }

\* target_bones: the bone names of the target armature, in its order
TargetLists == InjectiveLists(TargetPool)

\* source_bones: the bone names of the source armature, in its order, and
\* lists that name a bone twice
SourceLists ==
    InjectiveLists(SourcePool)
        \cup { <<a, a>> : a \in SourcePool }
        \cup { <<a, b, a>> : a, b \in SourcePool }

\* the skeletons of a humanoid rig and of a rig with another naming scheme
HumanoidSources == { "Hips", "Spine", "LeftArm" }
HumanoidTargets == { "hips", "spine_01", "upper_arm.L" }

\* the strictest auto_map_threshold
StrictThreshold == One

\* the arguments the model passes to find_best_match
MatchArguments ==
    { <<source_bone, target_bones, threshold>> :
        source_bone \in SourcePool, target_bones \in TargetLists,
        threshold \in Thresholds \cup {StrictThreshold} }
    \cup
    { <<source_bone, target_bones, C060>> :
        source_bone \in HumanoidSources,
        target_bones \in InjectiveLists(HumanoidTargets) }

\* find_best_match on every argument the model passes to it, computed once
BestMatches ==
    { [source_bone |-> a[1], target_bones |-> a[2], threshold |-> a[3],
       result |-> find_best_match(a[1], a[2], a[3])] : a \in MatchArguments }

\* the call find_best_match(source_bone, target_bones, threshold)
BestMatch(source_bone, target_bones, threshold) ==
    (CHOOSE r \in BestMatches :
        /\ r.source_bone = source_bone
        /\ r.target_bones = target_bones
        /\ r.threshold = threshold).result

\* used_targets seeded with the targets of the mappings of confidence >= 1.0
SeedUsedTargets(p, preserve_existing) ==
    IF preserve_existing
    THEN {p.mappings[i].target_bone : i \in
             {j \in 1..Len(p.mappings) : FracLE(C100, p.mappings[j].confidence)}}
    ELSE {}

\* the used targets are offered again
AvailableTargetsMutant(target_bones, used_targets) == target_bones

\* [b for b in target_bones if b not in used_targets]
RECURSIVE AvailableTargets(_, _)
AvailableTargets(target_bones, used_targets) ==
    IF target_bones = <<>> THEN <<>>
    ELSE IF Head(target_bones) \in used_targets
         THEN AvailableTargets(Tail(target_bones), used_targets)
         ELSE <<Head(target_bones)>> \o AvailableTargets(Tail(target_bones), used_targets)

\* list.remove(x): drops the first occurrence of x
ListRemoveMutant(lst, x) == lst

RECURSIVE ListRemove(_, _)
ListRemove(lst, x) ==
    IF lst = <<>> THEN <<>>
    ELSE IF Head(lst) = x THEN Tail(lst)
    ELSE <<Head(lst)>> \o ListRemove(Tail(lst), x)

\* the test `preserve_existing and mapping_preset.find_target_bone(source_bone)`
SkipSourceMutant(p, source_bone, preserve_existing) == FALSE

SkipSource(p, source_bone, preserve_existing) ==
    preserve_existing /\ Truthy(find_target_bone(p, source_bone))

\* `if target_match:` add the mapping, mark the target used, count it
AssignMatch(st, source_bone, best, clock) ==
    IF Truthy(best.match)
    THEN [preset |-> add_mapping(st.preset, source_bone, best.match.value,
                                 best.confidence, clock),
          used_targets |-> st.used_targets \cup {best.match.value},
          available_targets |-> ListRemove(st.available_targets,
                                           best.match.value),
          mapped_count |-> st.mapped_count + 1,
          skipped_count |-> st.skipped_count,
          assigned |-> Append(st.assigned,
                              BoneMapping(source_bone, best.match.value,
                                          best.confidence))]
    ELSE st

\* one iteration of `for source_bone in source_bones`, on the loop's locals
AutoMapStep(st, source_bone, threshold, preserve_existing, clock) ==
    IF SkipSource(st.preset, source_bone, preserve_existing)
    THEN [st EXCEPT !.skipped_count = @ + 1]
    ELSE AssignMatch(st, source_bone,
                     BestMatch(source_bone, st.available_targets, threshold),
                     clock)

\* the loop; each iteration's locals are computed once and handed on
RECURSIVE AutoMapLoop(_, _, _, _, _, _)
AutoMapLoop(st, source_bones, i, threshold, preserve_existing, clock) ==
    IF i > Len(source_bones) THEN st
    ELSE CHOOSE final \in
             { AutoMapLoop(nxt, source_bones, i + 1, threshold,
                           preserve_existing, clock) :
               nxt \in { AutoMapStep(st, source_bones[i], threshold,
                                     preserve_existing, clock) } } : TRUE

\* the whole call; `assigned` lists the add_mapping calls of this run in order
\* the run starts from a preset without mappings
AutoMapStartMutant(p, target_bones, used) ==
    [preset |-> [p EXCEPT !.mappings = <<>>],
     used_targets |-> used,
     available_targets |-> AvailableTargets(target_bones, used),
     mapped_count |-> 0,
     skipped_count |-> 0,
     assigned |-> <<>>]

\* the locals before the loop
AutoMapStart(p, target_bones, used) ==
    [preset |-> p,
     used_targets |-> used,
     available_targets |-> AvailableTargets(target_bones, used),
     mapped_count |-> 0,
     skipped_count |-> 0,
     assigned |-> <<>>]

\* update_metadata and the counts of the message, from the locals after the loop
AutoMapReturn(st, source_bones, clock) ==
    [success |-> TRUE,
     preset |-> update_metadata(st.preset, clock),
     mapped_count |-> st.mapped_count,
     skipped_count |-> st.skipped_count,
     unmapped_count |-> Len(source_bones) - st.mapped_count - st.skipped_count,
     assigned |-> st.assigned]

auto_map_bones(p, source_bones, target_bones, threshold, preserve_existing, clock) ==
    CHOOSE r \in
        { AutoMapReturn(st, source_bones, clock) :
          st \in { AutoMapLoop(AutoMapStart(p, target_bones,
                                            SeedUsedTargets(p, preserve_existing)),
                               source_bones, 1, threshold, preserve_existing,
                               clock) } } : TRUE

(***************************************************************************)
(* Clip Model: core/domain/animation_data_entities.py                      *)
(*                                                                         *)
(* An entity field holds a Python value up to ==: a number (1 == 1.0), a   *)
(* string, a bool, a dict (a record), a tuple or a list (a list never      *)
(* equals a tuple).  The lists that the entities build themselves, of      *)
(* keyframes, curves and tracks, are sequences.  A data_path such as       *)
(* 'pose.bones["Hips"].location' is the record of its quote character,     *)
(* bone name and property.                                                 *)
(***************************************************************************)
PyTuple(items) == [py |-> "tuple", items |-> items]
PyListOf(items) == [py |-> "list", items |-> items]

KeyframeData(frame, value, interpolation, handle_left, handle_right, handle_left_type, handle_right_type) ==
    [frame |-> frame, value |-> value, interpolation |-> interpolation,
     handle_left |-> handle_left, handle_right |-> handle_right,
     handle_left_type |-> handle_left_type,
     handle_right_type |-> handle_right_type]

FCurveData(data_path, array_index, keyframes, extrapolation, modifiers) ==
    [data_path |-> data_path, array_index |-> array_index,
     keyframes |-> keyframes, extrapolation |-> extrapolation,
     modifiers |-> modifiers]

BoneAnimationData(bone_name, fcurves) ==
    [bone_name |-> bone_name, fcurves |-> fcurves]

AnimationData(name, description, frame_start, frame_end, bones, source_armature, source_action, bone_count, version) ==
    [name |-> name, description |-> description,
     frame_start |-> frame_start, frame_end |-> frame_end, bones |-> bones,
     source_armature |-> source_armature, source_action |-> source_action,
     bone_count |-> bone_count, version |-> version]

(***************************************************************************)
(* Python values as json.dumps and json.loads see them, each with its      *)
(* type, and JSON documents, each value with its JSON kind.  A JSON number *)
(* is "real" when its text has a fraction part (1.0) and "int" when not.   *)
(***************************************************************************)
PyStr(x) == [py |-> "str", v |-> x]
PyInt(x) == [py |-> "int", v |-> x]
PyFloat(x) == [py |-> "float", v |-> x]
PyBool(x) == [py |-> "bool", v |-> x]
PyList(x) == [py |-> "list", v |-> x]
PyDict(x) == [py |-> "dict", v |-> x]

\* the value of a typed Python value up to ==
RECURSIVE Plain(_)
Plain(x) ==
    IF x.py = "dict" THEN [k \in DOMAIN x.v |-> Plain(x.v[k])]
    ELSE IF x.py = "list" THEN PyListOf([i \in 1..Len(x.v) |-> Plain(x.v[i])])
    ELSE IF x.py = "tuple" THEN PyTuple([i \in 1..Len(x.v) |-> Plain(x.v[i])])
    ELSE x.v

\* json.dumps: dict -> object, list and tuple -> array, str -> string,
\* int -> number without fraction, float -> number with fraction (repr)
RECURSIVE json_dumps(_)
json_dumps(x) ==
    IF x.py = "dict"
    THEN [j |-> "object", v |-> [k \in DOMAIN x.v |-> json_dumps(x.v[k])]]
    ELSE IF x.py \in {"list", "tuple"}
    THEN [j |-> "array", v |-> [i \in 1..Len(x.v) |-> json_dumps(x.v[i])]]
    ELSE IF x.py = "str" THEN [j |-> "string", v |-> x.v]
    ELSE IF x.py = "int" THEN [j |-> "int", v |-> x.v]
    ELSE IF x.py = "float" THEN [j |-> "real", v |-> x.v]
    ELSE [j |-> "bool", v |-> x.v]

\* json.loads: object -> dict, array -> list, string -> str,
\* number without fraction -> int, number with fraction -> float
RECURSIVE json_loads(_)
json_loads(x) ==
    IF x.j = "object" THEN PyDict([k \in DOMAIN x.v |-> json_loads(x.v[k])])
    ELSE IF x.j = "array" THEN PyList([i \in 1..Len(x.v) |-> json_loads(x.v[i])])
    ELSE IF x.j = "string" THEN PyStr(x.v)
    ELSE IF x.j = "int" THEN PyInt(x.v)
    ELSE IF x.j = "real" THEN PyFloat(x.v)
    ELSE PyBool(x.v)

\* data.get(key, default)
Get(data, key, default) ==
    IF key \in DOMAIN data.v THEN data.v[key] ELSE default

\* list(t) on a tuple of floats, as a typed Python value
ListOfFloats(t) == PyList([i \in 1..Len(t.items) |-> PyFloat(t.items[i])])

\* tuple(x) on a typed list or tuple
TupleOfMutant(x) == Plain(x)

TupleOf(x) == PyTuple(Plain(x).items)

KeyframeData_to_dict(self) ==
    PyDict([frame |-> PyFloat(self.frame),
            value |-> PyFloat(self.value),
            interpolation |-> PyStr(self.interpolation),
            handle_left |-> ListOfFloats(self.handle_left),
            handle_right |-> ListOfFloats(self.handle_right),
            handle_left_type |-> PyStr(self.handle_left_type),
            handle_right_type |-> PyStr(self.handle_right_type)])

KeyframeData_from_dict(data) ==
    KeyframeData(
        Plain(data.v["frame"]),
        Plain(data.v["value"]),
        Plain(Get(data, "interpolation", PyStr("BEZIER"))),
        TupleOf(Get(data, "handle_left", PyList(<<PyFloat(0), PyFloat(0)>>))),
        TupleOf(Get(data, "handle_right", PyList(<<PyFloat(0), PyFloat(0)>>))),
        Plain(Get(data, "handle_left_type", PyStr("AUTO"))),
        Plain(Get(data, "handle_right_type", PyStr("AUTO"))))

\* a modifier entry {'type': str, 'mute': bool}
ModifierValue(m) == PyDict([type |-> PyStr(m.type), mute |-> PyBool(m.mute)])

FCurveData_to_dict(self) ==
    PyDict([data_path |-> PyStr(self.data_path),
            array_index |-> PyInt(self.array_index),
            keyframes |-> PyList([i \in 1..Len(self.keyframes) |->
                                     KeyframeData_to_dict(self.keyframes[i])]),
            extrapolation |-> PyStr(self.extrapolation),
            modifiers |-> PyList([i \in 1..Len(self.modifiers.items) |->
                                     ModifierValue(self.modifiers.items[i])])])

FCurveData_from_dict(data) ==
    LET kfs == Get(data, "keyframes", PyList(<<>>)).v
    IN  FCurveData(
            Plain(data.v["data_path"]),
            Plain(data.v["array_index"]),
            [i \in 1..Len(kfs) |-> KeyframeData_from_dict(kfs[i])],
            Plain(Get(data, "extrapolation", PyStr("CONSTANT"))),
            Plain(Get(data, "modifiers", PyList(<<>>))))

BoneAnimationData_to_dict(self) ==
    PyDict([bone_name |-> PyStr(self.bone_name),
            fcurves |-> PyList([i \in 1..Len(self.fcurves) |->
                                   FCurveData_to_dict(self.fcurves[i])])])

BoneAnimationData_from_dict(data) ==
    LET fcs == Get(data, "fcurves", PyList(<<>>)).v
    IN  BoneAnimationData(
            Plain(data.v["bone_name"]),
            [i \in 1..Len(fcs) |-> FCurveData_from_dict(fcs[i])])

AnimationData_to_dict(self) ==
    PyDict([name |-> PyStr(self.name),
            description |-> PyStr(self.description),
            frame_start |-> PyFloat(self.frame_start),
            frame_end |-> PyFloat(self.frame_end),
            bones |-> PyList([i \in 1..Len(self.bones) |->
                                 BoneAnimationData_to_dict(self.bones[i])]),
            source_armature |-> PyStr(self.source_armature),
            source_action |-> PyStr(self.source_action),
            bone_count |-> PyInt(self.bone_count),
            version |-> PyStr(self.version)])

AnimationData_from_dict(data) ==
    LET bs == Get(data, "bones", PyList(<<>>)).v
    IN  AnimationData(
            Plain(data.v["name"]),
            Plain(Get(data, "description", PyStr(""))),
            Plain(Get(data, "frame_start", PyFloat(1))),
            Plain(Get(data, "frame_end", PyFloat(250))),
            [i \in 1..Len(bs) |-> BoneAnimationData_from_dict(bs[i])],
            Plain(Get(data, "source_armature", PyStr(""))),
            Plain(Get(data, "source_action", PyStr(""))),
            Plain(Get(data, "bone_count", PyInt(0))),
            Plain(Get(data, "version", PyStr("1.0"))))

AnimationData_to_json(self) == json_dumps(AnimationData_to_dict(self))

AnimationData_from_json(json_str) == AnimationData_from_dict(json_loads(json_str))

(***************************************************************************)
(* Serialization of the mapping presets.  A date is the tick of the clock  *)
(* it was taken at; the empty string, which __post_init__ replaces by the  *)
(* time of the call, is the date 0.                                        *)
(***************************************************************************)
BoneMapping_to_dict(self) ==
    PyDict([source_bone |-> PyStr(self.source_bone),
            target_bone |-> PyStr(self.target_bone),
            confidence |-> PyFloat(self.confidence)])

BoneMapping_from_dict(data) ==
    BoneMapping(Plain(data.v["source_bone"]),
                Plain(data.v["target_bone"]),
                Plain(Get(data, "confidence", PyFloat(One))))

BoneMappingPreset_to_dict(self) ==
    PyDict([name |-> PyStr(self.name),
            source_armature_name |-> PyStr(self.source_armature_name),
            target_armature_name |-> PyStr(self.target_armature_name),
            description |-> PyStr(self.description),
            mappings |-> PyList([i \in 1..Len(self.mappings) |->
                                    BoneMapping_to_dict(self.mappings[i])]),
            metadata |-> PyDict([created_date |-> PyStr(self.created_date),
                                 modified_date |-> PyStr(self.modified_date),
                                 source_bone_count |-> PyInt(self.source_bone_count),
                                 target_bone_count |-> PyInt(self.target_bone_count),
                                 mapped_count |-> PyInt(self.mapped_count),
                                 auto_mapped_count |-> PyInt(self.auto_mapped_count)]),
            version |-> PyStr(self.version)])

\* the dates read from the document itself, not from its metadata
BoneMappingPreset_from_dictMutant(data, clock) ==
    LET ms == Get(data, "mappings", PyList(<<>>)).v
        metadata == Get(data, "metadata", PyDict(<<>>))
    IN  BoneMappingPreset(
            Plain(data.v["name"]),
            Plain(data.v["source_armature_name"]),
            Plain(data.v["target_armature_name"]),
            [i \in 1..Len(ms) |-> BoneMapping_from_dict(ms[i])],
            Plain(Get(data, "description", PyStr(""))),
            Plain(Get(data, "created_date", PyStr(0))),
            Plain(Get(data, "modified_date", PyStr(0))),
            Plain(Get(metadata, "source_bone_count", PyInt(0))),
            Plain(Get(metadata, "target_bone_count", PyInt(0))),
            Plain(Get(metadata, "mapped_count", PyInt(0))),
            Plain(Get(metadata, "auto_mapped_count", PyInt(0))),
            Plain(Get(data, "version", PyStr("1.0"))),
            clock)

BoneMappingPreset_from_dict(data, clock) ==
    LET ms == Get(data, "mappings", PyList(<<>>)).v
        metadata == Get(data, "metadata", PyDict(<<>>))
    IN  BoneMappingPreset(
            Plain(data.v["name"]),
            Plain(data.v["source_armature_name"]),
            Plain(data.v["target_armature_name"]),
            [i \in 1..Len(ms) |-> BoneMapping_from_dict(ms[i])],
            Plain(Get(data, "description", PyStr(""))),
            Plain(Get(metadata, "created_date", PyStr(0))),
            Plain(Get(metadata, "modified_date", PyStr(0))),
            Plain(Get(metadata, "source_bone_count", PyInt(0))),
            Plain(Get(metadata, "target_bone_count", PyInt(0))),
            Plain(Get(metadata, "mapped_count", PyInt(0))),
            Plain(Get(metadata, "auto_mapped_count", PyInt(0))),
            Plain(Get(data, "version", PyStr("1.0"))),
            clock)

BoneMappingPreset_to_json(self) == json_dumps(BoneMappingPreset_to_dict(self))

BoneMappingPreset_from_json(json_str, clock) == BoneMappingPreset_from_dict(json_loads(json_str), clock)

(***************************************************************************)
(* The clips of the model, as extract_animation_from_action builds them:   *)
(* one track per bone, every curve of a track on that bone's data path,    *)
(* at most one curve per (data_path, array_index), keyframes in frame      *)
(* order.                                                                  *)
(***************************************************************************)
\* most bone tracks in a clip
MaxTracks == 2

\* most keyframes on a curve
MaxKeys == 2

\* bone names of the tracks
TrackBones == {"Hips", "Hand", "Foo"}

\* 'pose.bones["<bone>"].<prop>'
DataPath(bone, prop) == [quote |-> "\"", bone |-> bone, prop |-> prop]

\* the i-th keyframe of a curve
KeyframeAt(i) ==
    IF i % 2 = 1
    THEN KeyframeData(2 * i - 1, 3 * i, "BEZIER", PyTuple(<<2 * i - 2, 0>>),
                      PyTuple(<<2 * i, 1>>), "AUTO", "ALIGNED")
    ELSE KeyframeData(2 * i - 1, 0 - i, "LINEAR", PyTuple(<<0, 0>>),
                      PyTuple(<<0, 0>>), "VECTOR", "FREE")

Keyframes(n) == [i \in 1..n |-> KeyframeAt(i)]

LocationCurve(bone, n) ==
    FCurveData(DataPath(bone, "location"), 0, Keyframes(n), "CONSTANT",
               PyListOf(<<>>))

RotationCurve(bone, n) ==
    FCurveData(DataPath(bone, "rotation_quaternion"), 1, Keyframes(n),
               "LINEAR", PyListOf(<<[type |-> "NOISE", mute |-> FALSE]>>))

\* the curve lists of a track: none, one curve, two curves
TrackShapes == {0, 1, 2}

Track(bone, shape, n) ==
    BoneAnimationData(bone,
        IF shape = 0 THEN <<>>
        ELSE IF shape = 1 THEN <<LocationCurve(bone, n)>>
        ELSE <<LocationCurve(bone, n), RotationCurve(bone, n)>>)

\* track lists of at most MaxTracks tracks on distinct bones, the curves
\* without keyframes or with MaxKeys keyframes
TrackLists ==
    UNION { { [i \in 1..k |-> Track(bs[i], sh[i], n)] :
              bs \in { b \in [1..k -> TrackBones] : IsInjective(b) },
              sh \in [1..k -> TrackShapes], n \in {0, MaxKeys} } :
            k \in 0..MaxTracks }

Clip(bones) ==
    AnimationData("Walk", "", 1, 5, bones, "Rig", "Walk", Len(bones), "1.0")

Clips == { Clip(bones) : bones \in TrackLists }

(***************************************************************************)
(* The host's animation data, as the retargeting code uses it (bpy):       *)
(* an action is a list of fcurves keyed by (data_path, array_index), an    *)
(* fcurve keeps its keyframe_points ordered by frame, bpy.data.actions     *)
(* maps a name to an action, an armature refers to its action by name.     *)
(***************************************************************************)
\* a keyframe point as keyframe_points.insert creates it
NewKeyframePoint(frame, value) ==
    [co |-> <<frame, value>>, interpolation |-> "BEZIER",
     handle_left |-> <<frame, value>>, handle_right |-> <<frame, value>>,
     handle_left_type |-> "AUTO_CLAMPED", handle_right_type |-> "AUTO_CLAMPED"]

\* index of the keyframe point on this frame, 0 when there is none
RECURSIVE PointOnFrame(_, _, _)
PointOnFrame(points, frame, i) ==
    IF i > Len(points) THEN 0
    ELSE IF points[i].co[1] = frame THEN i
    ELSE PointOnFrame(points, frame, i + 1)

\* number of keyframe points before this frame
PointsBefore(points, frame) ==
    Cardinality({i \in 1..Len(points) : points[i].co[1] < frame})

\* keyframe_points.insert(frame, value): the point on that frame gets the
\* value, or a new point is put in frame order; `at` is the point returned
KeyframePointsInsert(points, frame, value) ==
    LET i == PointOnFrame(points, frame, 1)
        b == PointsBefore(points, frame)
    IN  IF i # 0
        THEN [points |-> [points EXCEPT ![i].co = <<frame, value>>], at |-> i]
        ELSE [points |-> SubSeq(points, 1, b)
                             \o <<NewKeyframePoint(frame, value)>>
                             \o SubSeq(points, b + 1, Len(points)),
              at |-> b + 1]

\* the keyframe point that receives every field of keyframe_data
AppliedPointMutant(point, keyframe_data) ==
    [point EXCEPT !.handle_left = keyframe_data.handle_left.items,
                  !.handle_right = keyframe_data.handle_right.items]

AppliedPoint(point, keyframe_data) ==
    [point EXCEPT !.interpolation = keyframe_data.interpolation,
                  !.handle_left = keyframe_data.handle_left.items,
                  !.handle_right = keyframe_data.handle_right.items,
                  !.handle_left_type = keyframe_data.handle_left_type,
                  !.handle_right_type = keyframe_data.handle_right_type]

\* core/use_cases/apply_animation_data.py
apply_keyframe_to_fcurve(fcurve, keyframe_data) ==
    LET ins == KeyframePointsInsert(fcurve.keyframe_points,
                                    keyframe_data.frame, keyframe_data.value)
    IN  [fcurve EXCEPT !.keyframe_points =
            [ins.points EXCEPT ![ins.at] = AppliedPoint(@, keyframe_data)]]

\* for keyframe_data in fcurve_data.keyframes: apply_keyframe_to_fcurve
RECURSIVE ApplyKeyframes(_, _, _)
ApplyKeyframes(fcurve, keyframes, i) ==
    IF i > Len(keyframes) THEN fcurve
    ELSE CHOOSE final \in
             { ApplyKeyframes(nxt, keyframes, i + 1) :
               nxt \in { apply_keyframe_to_fcurve(fcurve, keyframes[i]) } } : TRUE

\* action.fcurves.find(data_path, index=array_index): its position, or 0
RECURSIVE FCurvesFind(_, _, _, _)
FCurvesFind(fcurves, data_path, array_index, i) ==
    IF i > Len(fcurves) THEN 0
    ELSE IF fcurves[i].data_path = data_path /\ fcurves[i].array_index = array_index
         THEN i
         ELSE FCurvesFind(fcurves, data_path, array_index, i + 1)

\* action.fcurves.new(data_path, index=array_index)
FCurvesNew(fcurves, data_path, array_index) ==
    Append(fcurves, [data_path |-> data_path, array_index |-> array_index,
                     keyframe_points |-> <<>>, extrapolation |-> "CONSTANT"])

\* action.fcurves.clear()
FCurvesClearMutant(fcurves) == fcurves

FCurvesClear(fcurves) == <<>>

\* bpy.data.actions.new(name=...)
NewAction(name) ==
    [name |-> name, fcurves |-> <<>>, frame_start |-> 0, frame_end |-> 0]

\* create_action_for_armature: get or create "<action_name>_<armature name>"
\* and assign it; a name built by an f-string is the sequence of its pieces
create_action_for_armature(armature_obj, action_name, actions) ==
    LET unique_action_name == action_name \o <<"_", armature_obj.name>>
    IN  [actions |-> IF unique_action_name \in DOMAIN actions THEN actions
                     ELSE actions @@ (unique_action_name :> NewAction(unique_action_name)),
         armature_obj |-> [armature_obj EXCEPT !.animation_data =
                              [present |-> TRUE, action |-> unique_action_name]],
         action |-> unique_action_name]

(***************************************************************************)
(* Retargeting Engine: core/use_cases/apply_animation_with_mapping.py      *)
(***************************************************************************)
\* re.sub of pose.bones[<quote><source_bone><quote>] by pose.bones["<target_bone>"]
remap_bone_name_in_datapath(data_path, source_bone, target_bone) ==
    IF data_path.quote \in {"\"", "'"} /\ data_path.bone = source_bone
    THEN [data_path EXCEPT !.quote = "\"", !.bone = target_bone]
    ELSE data_path

\* a formatted string: the f-string and the values put into it
Format(fmt, args) == [fmt |-> fmt, args |-> args]

\* the action after one curve is applied, and the error message if any
apply_fcurve_with_mapping(action, fcurve_data, source_bone, target_bone, target_armature) ==
    IF target_bone \notin target_armature.bones
    THEN [action |-> action,
          error |-> Some(Format("Target bone not found: {}", <<target_bone>>))]
    ELSE LET remapped_data_path ==
                 remap_bone_name_in_datapath(fcurve_data.data_path,
                                             source_bone, target_bone)
             found == FCurvesFind(action.fcurves, remapped_data_path,
                                  fcurve_data.array_index, 1)
             with == IF found = 0
                     THEN FCurvesNew(action.fcurves, remapped_data_path,
                                     fcurve_data.array_index)
                     ELSE action.fcurves
             at == IF found = 0 THEN Len(with) ELSE found
             cleared == [with[at] EXCEPT !.keyframe_points = <<>>]
             filled == ApplyKeyframes(cleared, fcurve_data.keyframes, 1)
         IN  [action |-> [action EXCEPT !.fcurves =
                             [with EXCEPT ![at] =
                                 [filled EXCEPT !.extrapolation =
                                                    fcurve_data.extrapolation]]],
              error |-> None]

\* warnings.append(f"No mapping for source bone: {source_bone}")
UnmappedWarning(source_bone) ==
    Format("No mapping for source bone: {}", <<source_bone>>)

\* warnings.append(f"Target bone not found in armature: {target_bone}
\* (mapped from {source_bone})")
MissingTargetWarningMutant(target_bone, source_bone) ==
    Format("Target bone not found: {} (mapped from {})",
           <<target_bone, source_bone>>)

MissingTargetWarning(target_bone, source_bone) ==
    Format("Target bone not found in armature: {} (mapped from {})",
           <<target_bone, source_bone>>)

\* one iteration of `for fcurve_data in bone_anim.fcurves`
ApplyCurveStep(st, track, k, source_bone, target_bone, armature_obj) ==
    LET r == apply_fcurve_with_mapping(st.action, track.fcurves[k], source_bone,
                                       target_bone, armature_obj)
    IN  IF r.error.found
        THEN [st EXCEPT !.warnings = Append(@, r.error.value)]
        ELSE [st EXCEPT !.action = r.action,
                        !.fcurves_created = @ + 1,
                        !.applied = Append(@, [bone_name |-> source_bone,
                                               fcurve |-> k])]

RECURSIVE ApplyCurveLoop(_, _, _, _, _, _)
ApplyCurveLoop(st, track, k, source_bone, target_bone, armature_obj) ==
    IF k > Len(track.fcurves) THEN st
    ELSE CHOOSE final \in
             { ApplyCurveLoop(nxt, track, k + 1, source_bone, target_bone,
                              armature_obj) :
               nxt \in { ApplyCurveStep(st, track, k, source_bone, target_bone,
                                        armature_obj) } } : TRUE

\* the track is skipped when the mapped bone is not one of the pose bones
TargetMissingMutant(target_bone, armature_obj) == FALSE

TargetMissing(target_bone, armature_obj) == target_bone \notin armature_obj.bones

\* one iteration of `for bone_anim in anim_data.bones`
ApplyTrackStepMutant(st, bone_anim, bone_mapping, armature_obj) ==
    [st EXCEPT !.bones_unmapped = @ + 1]

ApplyTrackStep(st, bone_anim, bone_mapping, armature_obj) ==
    LET source_bone == bone_anim.bone_name
        target_bone == find_target_bone(bone_mapping, source_bone)
    IN  IF ~Truthy(target_bone)
        THEN [st EXCEPT !.warnings = Append(@, UnmappedWarning(source_bone)),
                        !.bones_unmapped = @ + 1]
        ELSE IF TargetMissing(target_bone.value, armature_obj)
        THEN [st EXCEPT !.warnings =
                            Append(@, MissingTargetWarning(target_bone.value,
                                                           source_bone)),
                        !.bones_skipped = @ + 1]
        ELSE [ApplyCurveLoop(st, bone_anim, 1, source_bone, target_bone.value,
                             armature_obj)
                 EXCEPT !.bones_applied = @ + 1]

RECURSIVE ApplyTrackLoop(_, _, _, _, _)
ApplyTrackLoop(st, bones, i, bone_mapping, armature_obj) ==
    IF i > Len(bones) THEN st
    ELSE CHOOSE final \in
             { ApplyTrackLoop(nxt, bones, i + 1, bone_mapping, armature_obj) :
               nxt \in { ApplyTrackStep(st, bones[i], bone_mapping,
                                        armature_obj) } } : TRUE

\* int(x) of a frame number; the frame numbers of the model are whole
IntOf(x) == x

\* the return value once the loop is over
ApplyReturnMutant(fcurves_created, message, warnings) ==
    [success |-> TRUE, message |-> message, warnings |-> warnings]

ApplyReturn(fcurves_created, message, warnings) ==
    IF fcurves_created = 0
    THEN [success |-> FALSE,
          message |-> Format("No fcurves were created - check bone mapping and animation data", <<>>),
          warnings |-> warnings]
    ELSE [success |-> TRUE, message |-> message, warnings |-> warnings]

\* what a call leaves when it returns before anything is touched
EarlyReturn(armature_obj, actions, scene_in, text) ==
    [success |-> FALSE, message |-> Format(text, <<>>), warnings |-> <<>>,
     fcurves_created |-> 0, applied |-> <<>>, proceeded |-> FALSE,
     armature_obj |-> armature_obj, actions |-> actions, scene |-> scene_in,
     action |-> <<>>]

\* the call with action_name_override = None; `actions` is bpy.data.actions
\* and `scene_in` is bpy.context.scene
apply_animation_with_bone_mapping(armature_obj, anim_data, bone_mapping, create_new_action, actions, scene_in) ==
    IF armature_obj.type # "ARMATURE"
    THEN EarlyReturn(armature_obj, actions, scene_in,
                     "Target object is not an armature")
    ELSE IF /\ ~create_new_action
            /\ (~armature_obj.animation_data.present
                    \/ armature_obj.animation_data.action = <<>>)
    THEN EarlyReturn(armature_obj, actions, scene_in,
                     "No active action on armature")
    ELSE LET action_name == <<anim_data.name, "_", bone_mapping.name>>
             got == IF create_new_action
                    THEN create_action_for_armature(armature_obj, action_name,
                                                    actions)
                    ELSE [actions |-> actions, armature_obj |-> armature_obj,
                          action |-> armature_obj.animation_data.action]
             start == [got.actions[got.action] EXCEPT
                          !.fcurves = FCurvesClear(@),
                          !.frame_start = anim_data.frame_start,
                          !.frame_end = anim_data.frame_end]
             st == ApplyTrackLoop([action |-> start, warnings |-> <<>>,
                                   bones_applied |-> 0, bones_skipped |-> 0,
                                   bones_unmapped |-> 0, fcurves_created |-> 0,
                                   applied |-> <<>>],
                                  anim_data.bones, 1, bone_mapping, armature_obj)
             message == Format("Animation '{}' applied to '{}' using mapping '{}' ...",
                               <<anim_data.name, armature_obj.name,
                                 bone_mapping.name, st.fcurves_created,
                                 st.bones_applied, st.bones_unmapped,
                                 st.bones_skipped>>)
             ret == ApplyReturn(st.fcurves_created, message, st.warnings)
         IN  [success |-> ret.success, message |-> ret.message,
              warnings |-> ret.warnings,
              fcurves_created |-> st.fcurves_created, applied |-> st.applied,
              proceeded |-> TRUE,
              armature_obj |-> [got.armature_obj EXCEPT !.animation_data =
                                   [present |-> TRUE, action |-> got.action]],
              actions |-> [got.actions EXCEPT ![got.action] = st.action],
              scene |-> [frame_start |-> IntOf(anim_data.frame_start),
                         frame_end |-> IntOf(anim_data.frame_end),
                         frame_current |-> IntOf(anim_data.frame_start)],
              action |-> got.action]

(***************************************************************************)
(* Validator: validate_bone_mapping_for_animation                          *)
(***************************************************************************)
\* f"{source_bone} -> {target_bone}" (the arrow is U+2192)
MappingText(source_bone, target_bone) ==
    Format("{} -> {}", <<source_bone, target_bone>>)

\* a mapped bone is taken as valid whether or not the armature has its target
ValidateStepMutant(validation, bone_anim, bone_mapping, target_armature) ==
    LET source_bone == bone_anim.bone_name
        target_bone == find_target_bone(bone_mapping, source_bone)
    IN  IF ~Truthy(target_bone)
        THEN [validation EXCEPT !.unmapped_bones = Append(@, source_bone)]
        ELSE [validation EXCEPT !.valid_mappings =
                 Append(@, MappingText(source_bone, target_bone.value))]

\* one iteration of `for bone_anim in anim_data.bones`
ValidateStep(validation, bone_anim, bone_mapping, target_armature) ==
    LET source_bone == bone_anim.bone_name
        target_bone == find_target_bone(bone_mapping, source_bone)
    IN  IF ~Truthy(target_bone)
        THEN [validation EXCEPT !.unmapped_bones = Append(@, source_bone)]
        ELSE IF TargetMissing(target_bone.value, target_armature)
        THEN [validation EXCEPT !.missing_target_bones =
                 Append(@, MappingText(source_bone, target_bone.value))]
        ELSE [validation EXCEPT !.valid_mappings =
                 Append(@, MappingText(source_bone, target_bone.value))]

RECURSIVE ValidateLoop(_, _, _, _, _)
ValidateLoop(validation, bones, i, bone_mapping, target_armature) ==
    IF i > Len(bones) THEN validation
    ELSE CHOOSE final \in
             { ValidateLoop(nxt, bones, i + 1, bone_mapping, target_armature) :
               nxt \in { ValidateStep(validation, bones[i], bone_mapping,
                                      target_armature) } } : TRUE

\* (valid_count / total_count * 100) if total_count > 0 else 0.0
CoveragePercentageMutant(valid_count, total_count) == Frac(100, 1)

CoveragePercentage(valid_count, total_count) ==
    IF total_count > 0
    THEN FracMul(Frac(valid_count, total_count), Frac(100, 1))
    ELSE Zero

validate_bone_mapping_for_animation(anim_data, bone_mapping, target_armature) ==
    LET v == ValidateLoop([unmapped_bones |-> <<>>,
                           missing_target_bones |-> <<>>,
                           valid_mappings |-> <<>>,
                           total_bones |-> Len(anim_data.bones),
                           coverage_percentage |-> Zero],
                          anim_data.bones, 1, bone_mapping, target_armature)
        valid_count == Len(v.valid_mappings)
        total_count == v.total_bones
        is_valid == Len(v.unmapped_bones) = 0 /\ Len(v.missing_target_bones) = 0
    IN  [is_valid |-> is_valid,
         message |-> Format(IF is_valid THEN "Bone mapping is valid ..."
                            ELSE "Bone mapping validation issues: ...",
                            <<valid_count, total_count>>),
         validation |-> [v EXCEPT !.coverage_percentage =
                            CoveragePercentage(valid_count, total_count)]]

(***************************************************************************)
(* State.                                                                  *)
(***************************************************************************)
VARIABLES
    preset,           \* the BoneMappingPreset the caller owns
    now,              \* datetime.now(), as a tick count
    source_skeleton,  \* bone names of the source armature, in its order
    target_skeleton,  \* bone names of the target armature, in its order
    last,             \* the last operation on the preset, its inputs and result
    stored_clip,      \* the AnimationData that is serialized
    json_text,        \* the JSON document written for it
    loaded_clip,      \* the AnimationData read back from the document
    clip,             \* the AnimationData that is retargeted
    bone_map,         \* the BoneMappingPreset used for retargeting
    armature,         \* the target armature object
    bpy_actions,      \* bpy.data.actions
    scene,            \* bpy.context.scene
    outcome,          \* the result of the last retargeting or validation call
    previous,         \* the result of the call before it
    calls,            \* number of calls made
    probe,            \* the arguments of a call of one of the name functions
    answer,           \* what that call returned
    mapping_file,     \* the preset file in the bone-mapping directory
    load_result,      \* what load_bone_mapping_from_file returned last
    directory,        \* the *.json files of a service's directory
    list_cache,       \* the service's list cache and its time (module globals)
    wall_time,        \* time.time(), in seconds
    cache_history,    \* the service, and what happened since the list was built
    service_call      \* the last call of the service and what it returned

lifecycle_vars == <<preset, now, source_skeleton, target_skeleton, last>>
clip_vars == <<stored_clip, json_text, loaded_clip>>
apply_vars == <<clip, bone_map, armature, bpy_actions, scene, outcome, previous, calls>>
probe_vars == <<probe, answer>>
store_vars == <<mapping_file, load_result>>
cache_vars == <<directory, list_cache, wall_time, cache_history, service_call>>
vars == <<lifecycle_vars, clip_vars, apply_vars, probe_vars, store_vars, cache_vars>>

NoOp == [op |-> "none", pre |-> <<>>, threshold |-> Zero,
         preserve_existing |-> FALSE, assigned |-> <<>>,
         mapped_count |-> 0, skipped_count |-> 0, unmapped_count |-> 0]

\* create_bone_mapping_from_armatures: an empty preset for two armatures
create_bone_mapping(src_bones, tgt_bones, clock) ==
    BoneMappingPreset("preset", "SourceArmature", "TargetArmature", <<>>, "",
                      0, 0, Len(src_bones), Len(tgt_bones), 0, 0, "1.0", clock)

Absent == [present |-> FALSE]
Present(x) == [present |-> TRUE, value |-> x]

\* no name function is being called
NoProbe ==
    [fn |-> "none", x |-> <<>>, y |-> <<>>, source_bone |-> "",
     source_bones |-> <<>>, target_bones |-> <<>>, threshold |-> Zero]

\* no call has returned
NoAnswer == [call \in {} |-> Zero]

NoProbeState ==
    /\ probe = NoProbe
    /\ answer = NoAnswer

\* no file has been loaded
NoLoadResult ==
    [success |-> FALSE, message |-> Format("", <<>>), loaded |-> FALSE]

\* no preset file has been written
NoStoreState ==
    /\ mapping_file = Absent
    /\ load_result = NoLoadResult

\* the module globals at import: _mapping_list_cache = None,
\* _mapping_list_cache_time = 0
NoListCache == [cache |-> [present |-> FALSE, value |-> <<>>], time |-> 0]

\* no list has been built and nothing was written
NoHistory == [service |-> "none", built |-> FALSE, built_at |-> 0, written |-> FALSE]

\* no call of the service has been made
NoServiceCall ==
    [op |-> "none", success |-> FALSE, use_cache |-> FALSE, value |-> <<>>,
     cached |-> FALSE, listing |-> <<>>, built |-> FALSE, age |-> 0,
     written |-> FALSE]

\* no service is being used
NoCacheState ==
    /\ directory = {}
    /\ list_cache = NoListCache
    /\ wall_time = 0
    /\ cache_history = NoHistory
    /\ service_call = NoServiceCall

\* nothing is being serialized
NoClipState ==
    /\ stored_clip = Absent
    /\ json_text = Absent
    /\ loaded_clip = Absent

\* nothing is being edited
NoLifecycleState ==
    /\ preset = create_bone_mapping(<<>>, <<>>, 1)
    /\ now = 1
    /\ source_skeleton = <<>>
    /\ target_skeleton = <<>>
    /\ last = NoOp

NoOutcome ==
    [op |-> "none", create_new_action |-> FALSE, success |-> FALSE,
     message |-> Format("", <<>>), warnings |-> <<>>, fcurves_created |-> 0,
     applied |-> <<>>, proceeded |-> FALSE, fcurves |-> <<>>,
     is_valid |-> FALSE,
     validation |-> [unmapped_bones |-> <<>>, missing_target_bones |-> <<>>,
                     valid_mappings |-> <<>>, total_bones |-> 0,
                     coverage_percentage |-> Zero]]

DefaultScene == [frame_start |-> 1, frame_end |-> 250, frame_current |-> 1]

\* nothing is being retargeted
NoApplyState ==
    /\ clip = Absent
    /\ bone_map = Absent
    /\ armature = Absent
    /\ bpy_actions = <<>>
    /\ scene = DefaultScene
    /\ outcome = NoOutcome
    /\ previous = NoOutcome
    /\ calls = 0

(***************************************************************************)
(* The preset lifecycle as a state machine.                                *)
(***************************************************************************)
Init ==
    /\ now = 2
    /\ source_skeleton \in SourceLists
    /\ target_skeleton \in TargetLists
    /\ preset = create_bone_mapping(source_skeleton, target_skeleton, 1)
    /\ last = NoOp
    /\ NoClipState
    /\ NoApplyState
    /\ NoProbeState
    /\ NoStoreState
    /\ NoCacheState

AddMapping(source_bone, target_bone, confidence) ==
    /\ now <= MaxClock
    /\ preset' = add_mapping(preset, source_bone, target_bone, confidence, now)
    /\ last' = [NoOp EXCEPT !.op = "add_mapping", !.pre = preset.mappings]
    /\ now' = now + 1
    /\ UNCHANGED <<source_skeleton, target_skeleton, clip_vars, apply_vars,
                   probe_vars, store_vars, cache_vars>>

RemoveMapping(source_bone) ==
    /\ now <= MaxClock
    /\ preset' = remove_mapping(preset, source_bone, now)
    /\ last' = [NoOp EXCEPT !.op = "remove_mapping", !.pre = preset.mappings]
    /\ now' = now + 1
    /\ UNCHANGED <<source_skeleton, target_skeleton, clip_vars, apply_vars,
                   probe_vars, store_vars, cache_vars>>

AutoMap(threshold, preserve_existing) ==
    /\ now <= MaxClock
    /\ \E r \in { auto_map_bones(preset, source_skeleton, target_skeleton, threshold,
                                  preserve_existing, now) } :
           /\ preset' = r.preset
           /\ last' = [op |-> "auto_map",
                       pre |-> preset.mappings,
                       threshold |-> threshold,
                       preserve_existing |-> preserve_existing,
                       assigned |-> r.assigned,
                       mapped_count |-> r.mapped_count,
                       skipped_count |-> r.skipped_count,
                       unmapped_count |-> r.unmapped_count]
    /\ now' = now + 1
    /\ UNCHANGED <<source_skeleton, target_skeleton, clip_vars, apply_vars,
                   probe_vars, store_vars, cache_vars>>

Next ==
    \/ \E s \in SourcePool, t \in TargetPool, c \in ManualConfidences :
           AddMapping(s, t, c)
    \/ \E s \in SourcePool : RemoveMapping(s)
    \/ \E th \in Thresholds, pe \in BOOLEAN : AutoMap(th, pe)

Spec == Init /\ [][Next]_vars

(***************************************************************************)
(* Serializing a clip and reading it back.                                 *)
(***************************************************************************)
InitClip ==
    /\ stored_clip \in { Present(c) : c \in Clips }
    /\ json_text = Absent
    /\ loaded_clip = Absent
    /\ NoLifecycleState
    /\ NoApplyState
    /\ NoProbeState
    /\ NoStoreState
    /\ NoCacheState

\* AnimationData.to_json
ToJson ==
    /\ ~json_text.present
    /\ json_text' = Present(AnimationData_to_json(stored_clip.value))
    /\ UNCHANGED <<stored_clip, loaded_clip, lifecycle_vars, apply_vars,
                   probe_vars, store_vars, cache_vars>>

\* AnimationData.from_json
FromJson ==
    /\ json_text.present
    /\ ~loaded_clip.present
    /\ loaded_clip' = Present(AnimationData_from_json(json_text.value))
    /\ UNCHANGED <<stored_clip, json_text, lifecycle_vars, apply_vars,
                   probe_vars, store_vars, cache_vars>>

NextClip == ToJson \/ FromJson

SpecClip == InitClip /\ [][NextClip]_vars

(***************************************************************************)
(* Loading a clip file that this program or another tool has written.      *)
(***************************************************************************)
\* tokens that are no interpolation, handle type or extrapolation
ForeignTokens == {"FOO", "bezier"}

EnumFields ==
    {"interpolation", "handle_left_type", "handle_right_type", "extrapolation"}

ForeignCurve(fc, field, token) ==
    IF field = "extrapolation" THEN [fc EXCEPT !.extrapolation = token]
    ELSE [fc EXCEPT !.keyframes =
             [i \in 1..Len(fc.keyframes) |->
                 [fc.keyframes[i] EXCEPT ![field] = token]]]

\* the clip c with the token in the field of every curve or keyframe
ForeignClip(c, field, token) ==
    [c EXCEPT !.bones =
        [i \in 1..Len(c.bones) |->
            [c.bones[i] EXCEPT !.fcurves =
                [k \in 1..Len(c.bones[i].fcurves) |->
                    ForeignCurve(c.bones[i].fcurves[k], field, token)]]]]

ForeignClips ==
    { ForeignClip(c, field, token) :
        c \in Clips, field \in EnumFields, token \in ForeignTokens } \ Clips

\* text that is no JSON document
Malformed == [j |-> "malformed", v |-> ""]

\* what the file at filepath holds, if it exists
ClipFiles ==
    {Absent, Present(Malformed)}
        \cup { Present(AnimationData_to_json(c)) : c \in Clips \cup ForeignClips }

\* the enum tokens of the keyframes and curves of a clip document
EnumTokens(doc) ==
    UNION { UNION { {doc.v.bones.v[i].v.fcurves.v[k].v.extrapolation.v} \cup
                    UNION { LET kf == doc.v.bones.v[i].v.fcurves.v[k].v.keyframes.v[n].v
                            IN  {kf.interpolation.v, kf.handle_left_type.v,
                                 kf.handle_right_type.v} :
                            n \in 1..Len(doc.v.bones.v[i].v.fcurves.v[k].v.keyframes.v) } :
                    k \in 1..Len(doc.v.bones.v[i].v.fcurves.v) } :
            i \in 1..Len(doc.v.bones.v) }

InitFile ==
    /\ json_text \in ClipFiles
    /\ stored_clip = Absent
    /\ loaded_clip = Absent
    /\ mapping_file = Absent
    /\ load_result = NoLoadResult
    /\ NoLifecycleState
    /\ NoApplyState
    /\ NoProbeState
    /\ NoCacheState

\* load_animation_data_from_file
LoadClipFile ==
    /\ ~load_result.loaded
    /\ IF ~json_text.present
       THEN /\ load_result' = [success |-> FALSE, loaded |-> TRUE,
                               message |-> Format("Animation file not found: {}", <<"filepath.name">>)]
            /\ loaded_clip' = Absent
       ELSE IF json_text.value = Malformed
       THEN /\ load_result' = [success |-> FALSE, loaded |-> TRUE,
                               message |-> Format("Invalid JSON format: {}", <<"e">>)]
            /\ loaded_clip' = Absent
       ELSE /\ loaded_clip' = Present(AnimationData_from_json(json_text.value))
            /\ load_result' = [success |-> TRUE, loaded |-> TRUE,
                               message |-> Format("Animation loaded: {}", <<loaded_clip'.value.name>>)]
    /\ UNCHANGED <<stored_clip, json_text, mapping_file, lifecycle_vars,
                   apply_vars, probe_vars, cache_vars>>

NextFile == LoadClipFile

SpecFile == InitFile /\ [][NextFile]_vars

(***************************************************************************)
(* Editing a preset, saving it to its file and loading the file back.      *)
(***************************************************************************)
\* source armatures, two of them with a bone name listed twice
StoreSources == { <<"Arm_L", "def-arm", "Arm_L">>, <<"leg", "leg">>, <<"Arm_L", "leg">> }

StoreTargets == { <<"arm_l", "leg">>, <<"leg", "arm.R", "arm_l">> }

\* the file after write_text, with the preset it was written from
Written(p) == [present |-> TRUE, value |-> BoneMappingPreset_to_json(p), saved |-> p]

InitStore ==
    /\ now = 2
    /\ source_skeleton \in StoreSources
    /\ target_skeleton \in StoreTargets
    /\ preset = create_bone_mapping(source_skeleton, target_skeleton, 1)
    /\ last = NoOp
    /\ NoClipState
    /\ NoApplyState
    /\ NoProbeState
    /\ NoStoreState
    /\ NoCacheState

\* save_bone_mapping_to_file: update_metadata, then to_json, then write_text
SaveMapping ==
    /\ now <= MaxClock
    /\ preset' = update_metadata(preset, now)
    /\ mapping_file' = Written(preset')
    /\ last' = [NoOp EXCEPT !.op = "save", !.pre = preset.mappings]
    /\ now' = now + 1
    /\ UNCHANGED <<source_skeleton, target_skeleton, load_result, clip_vars,
                   apply_vars, probe_vars, cache_vars>>

\* load_bone_mapping_from_file, the preset returned taken as the current one
LoadMapping ==
    /\ IF ~mapping_file.present
       THEN /\ load_result' = [success |-> FALSE, loaded |-> TRUE,
                               message |-> Format("Bone mapping file not found: {}", <<"filepath.name">>)]
            /\ UNCHANGED <<preset, last>>
       ELSE /\ preset' = BoneMappingPreset_from_json(mapping_file.value, now)
            /\ load_result' = [success |-> TRUE, loaded |-> TRUE,
                               message |-> Format("Bone mapping loaded: {}", <<preset'.name>>)]
            /\ last' = [NoOp EXCEPT !.op = "load", !.pre = preset.mappings]
    /\ UNCHANGED <<now, source_skeleton, target_skeleton, mapping_file,
                   clip_vars, apply_vars, probe_vars, cache_vars>>

NextStore ==
    \/ Next
    \/ SaveMapping
    \/ LoadMapping

SpecStore == InitStore /\ [][NextStore]_vars

(***************************************************************************)
(* Loading a preset file that this program or another tool has written,    *)
(* and validating a preset.                                                *)
(***************************************************************************)
Whitespace == {" ", "\t", "\n"}

\* str.strip()
RECURSIVE Strip(_)
Strip(s) ==
    IF s = <<>> THEN s
    ELSE IF Head(s) \in Whitespace THEN Strip(Tail(s))
    ELSE IF s[Len(s)] \in Whitespace THEN Strip(SubSeq(s, 1, Len(s) - 1))
    ELSE s

\* not s or not s.strip()
IsBlank(s) == Chars[s] = <<>> \/ Strip(Chars[s]) = <<>>

Invalid(message) == [is_valid |-> FALSE, message |-> message]

BlankSource(m) == IsBlank(m.source_bone)
BlankTarget(m) == IsBlank(m.target_bone)
ConfidenceOutOfRange(m) == FracLT(m.confidence, Zero) \/ FracLT(One, m.confidence)

\* the first mapping with a blank bone name, 0 when there is none
RECURSIVE FirstBlankBone(_, _)
FirstBlankBone(mappings, i) ==
    IF i > Len(mappings) THEN 0
    ELSE IF BlankSource(mappings[i]) \/ BlankTarget(mappings[i]) THEN i
    ELSE FirstBlankBone(mappings, i + 1)

\* the first mapping with a confidence outside [0, 1], 0 when there is none
RECURSIVE FirstOutOfRange(_, _)
FirstOutOfRange(mappings, i) ==
    IF i > Len(mappings) THEN 0
    ELSE IF ConfidenceOutOfRange(mappings[i]) THEN i
    ELSE FirstOutOfRange(mappings, i + 1)

validate_bone_mapping_preset(mapping_preset) ==
    LET mappings == mapping_preset.mappings
        blank == FirstBlankBone(mappings, 1)
        bad == FirstOutOfRange(mappings, 1)
    IN  IF IsBlank(mapping_preset.name)
        THEN Invalid(Format("Preset name cannot be empty", <<>>))
        ELSE IF IsBlank(mapping_preset.source_armature_name)
        THEN Invalid(Format("Source armature name cannot be empty", <<>>))
        ELSE IF IsBlank(mapping_preset.target_armature_name)
        THEN Invalid(Format("Target armature name cannot be empty", <<>>))
        ELSE IF mappings = <<>>
        THEN Invalid(Format("Bone mapping must contain at least one bone mapping", <<>>))
        ELSE IF Len(mappings) #
                    Cardinality({ mappings[i].source_bone : i \in 1..Len(mappings) })
        THEN Invalid(Format("Duplicate source bone mappings found", <<>>))
        ELSE IF blank # 0
        THEN IF BlankSource(mappings[blank])
             THEN Invalid(Format("Source bone name cannot be empty", <<>>))
             ELSE Invalid(Format("Target bone name cannot be empty", <<>>))
        ELSE IF bad # 0
        THEN Invalid(Format("Invalid confidence value for {}: {}",
                            <<mappings[bad].source_bone, mappings[bad].confidence>>))
        ELSE [is_valid |-> TRUE, message |-> Format("Bone mapping preset is valid", <<>>)]

\* names of a preset and of its armatures as a file may give them
FileNames == {"preset", "", "  "}
FileSourceNames == {"SourceArmature", "", "  "}
FileTargetNames == {"TargetArmature", ""}

\* mapping lists of a file: sound, with a source bone twice, with a
\* confidence above 1.0 or below 0.0, with a nameless bone, and none
FileMappings ==
    { <<BoneMapping("Arm_L", "arm_l", C095), BoneMapping("leg", "leg", One)>>,
      <<BoneMapping("Arm_L", "arm_l", One), BoneMapping("Arm_L", "leg", One)>>,
      <<BoneMapping("Arm_L", "arm_l", Frac(3, 2))>>,
      <<BoneMapping("leg", "leg", One), BoneMapping("Arm_L", "arm_l", Frac(0 - 1, 2))>>,
      <<BoneMapping("", "arm_l", One)>>,
      <<BoneMapping("leg", "  ", One)>>,
      <<>> }

\* the documents of the preset files
PresetFiles ==
    { Present(BoneMappingPreset_to_json(
          BoneMappingPreset(name, src, tgt, mappings, "", 1, 1, 3, 3,
                            Len(mappings), CountAuto(mappings), "1.0", 1))) :
        name \in FileNames, src \in FileSourceNames, tgt \in FileTargetNames,
        mappings \in FileMappings }

\* preset files whose mapping list was edited by hand or written by another
\* tool: the counters of the metadata are not those of the list
EditedFiles ==
    { Present(BoneMappingPreset_to_json(
          BoneMappingPreset("preset", "SourceArmature", "TargetArmature",
                            mappings, "", 1, 1, 3, 3, mc, 0, "1.0", 1))) :
        mappings \in { <<BoneMapping("Arm_L", "arm_l", C095),
                         BoneMapping("leg", "leg", One)>>,
                       <<BoneMapping("leg", "leg", C050)>> },
        mc \in 0..1 }

InitLoad ==
    /\ mapping_file \in PresetFiles \cup EditedFiles \cup {Absent}
    /\ load_result = NoLoadResult
    /\ NoLifecycleState
    /\ NoClipState
    /\ NoApplyState
    /\ NoProbeState
    /\ NoCacheState

\* validate_bone_mapping_preset on the preset that was loaded
ValidatePreset ==
    /\ last.op = "load"
    /\ \E r \in { validate_bone_mapping_preset(preset) } :
           outcome' = [NoOutcome EXCEPT !.op = "validate_preset",
                                        !.is_valid = r.is_valid,
                                        !.message = r.message]
    /\ UNCHANGED <<clip, bone_map, armature, bpy_actions, scene, previous, calls,
                   lifecycle_vars, clip_vars, probe_vars, store_vars, cache_vars>>

NextLoad ==
    \/ LoadMapping
    \/ ValidatePreset

SpecLoad == InitLoad /\ [][NextLoad]_vars

(***************************************************************************)
(* Retargeting a clip onto an armature, and validating the mapping.        *)
(***************************************************************************)
\* calls made in one behaviour
MaxCalls == 2

\* the source bones that a mapping may have an entry for, and its targets
MappedSources == <<"Hips", "Hand">>
MappedTargets == {"Hips", "Hand", "hand.R"}

\* the presets that manual edits produce: for each source bone no entry,
\* the bone of the same name, or "hand.R"
RECURSIVE PresetWith(_, _, _)
PresetWith(p, choice, i) ==
    IF i > Len(MappedSources) THEN p
    ELSE PresetWith(IF choice[i] = "" THEN p
                    ELSE add_mapping(p, MappedSources[i], choice[i], C100, 1),
                    choice, i + 1)

Presets ==
    { PresetWith(create_bone_mapping(<<"Hips", "Hand", "Foo">>,
                                     <<"Hips", "Hand", "hand.R">>, 1),
                 choice, 1) :
      choice \in { c \in [1..Len(MappedSources) -> MappedTargets \cup {""}] :
                   \A i \in 1..Len(MappedSources) :
                       c[i] \in {"", MappedSources[i], "hand.R"} } }

\* an action left over from earlier work, with curves of its own
StaleAction ==
    [name |-> <<"Stale">>,
     fcurves |-> << [data_path |-> DataPath("Hips", "location"),
                     array_index |-> 0,
                     keyframe_points |-> <<NewKeyframePoint(9, 9)>>,
                     extrapolation |-> "LINEAR"],
                    [data_path |-> DataPath("Old", "scale"),
                     array_index |-> 2,
                     keyframe_points |-> <<NewKeyframePoint(1, 1)>>,
                     extrapolation |-> "CONSTANT"] >>,
     frame_start |-> 0, frame_end |-> 0]

\* the target objects: armatures with more or fewer bones, with or without
\* an assigned action, and an object that is not an armature
Armatures ==
    { [name |-> "Target", type |-> "ARMATURE", bones |-> bs,
       animation_data |-> ad] :
      bs \in { {"Hips", "Hand", "hand.R"}, {"Hips", "Hand"}, {"Hips"} },
      ad \in { [present |-> FALSE, action |-> <<>>],
               [present |-> TRUE, action |-> <<"Stale">>] } }
    \cup { [name |-> "Target", type |-> "ARMATURE",
            bones |-> {"Hips", "Hand", "hand.R"},
            animation_data |-> [present |-> TRUE, action |-> <<>>]],
           [name |-> "Target", type |-> "MESH", bones |-> {},
            animation_data |-> [present |-> FALSE, action |-> <<>>]] }

InitApply ==
    /\ clip \in { Present(c) : c \in Clips }
    /\ bone_map \in { Present(p) : p \in Presets }
    /\ armature \in Armatures
    /\ bpy_actions = (<<"Stale">> :> StaleAction)
    /\ scene = DefaultScene
    /\ outcome = NoOutcome
    /\ previous = NoOutcome
    /\ calls = 0
    /\ NoLifecycleState
    /\ NoClipState
    /\ NoProbeState
    /\ NoStoreState
    /\ NoCacheState

\* apply_animation_with_bone_mapping(armature, clip, bone_map, create_new_action)
Apply(create_new_action) ==
    /\ calls < MaxCalls
    /\ \E r \in { apply_animation_with_bone_mapping(armature, clip.value,
                      bone_map.value, create_new_action, bpy_actions, scene) } :
           /\ armature' = r.armature_obj
           /\ bpy_actions' = r.actions
           /\ scene' = r.scene
           /\ outcome' = [NoOutcome EXCEPT
                             !.op = "apply",
                             !.create_new_action = create_new_action,
                             !.success = r.success,
                             !.message = r.message,
                             !.warnings = r.warnings,
                             !.fcurves_created = r.fcurves_created,
                             !.applied = r.applied,
                             !.proceeded = r.proceeded,
                             !.fcurves = IF r.proceeded
                                         THEN r.actions[r.action].fcurves
                                         ELSE <<>>]
    /\ previous' = outcome
    /\ calls' = calls + 1
    /\ UNCHANGED <<clip, bone_map, lifecycle_vars, clip_vars, probe_vars, store_vars, cache_vars>>

\* validate_bone_mapping_for_animation(clip, bone_map, armature)
Validate ==
    /\ calls < MaxCalls
    /\ \E r \in { validate_bone_mapping_for_animation(clip.value, bone_map.value,
                                                      armature) } :
           outcome' = [NoOutcome EXCEPT !.op = "validate",
                                        !.message = r.message,
                                        !.is_valid = r.is_valid,
                                        !.validation = r.validation]
    /\ previous' = outcome
    /\ calls' = calls + 1
    /\ UNCHANGED <<clip, bone_map, armature, bpy_actions, scene,
                   lifecycle_vars, clip_vars, probe_vars, store_vars, cache_vars>>

NextApply ==
    \/ \E create_new_action \in BOOLEAN : Apply(create_new_action)
    \/ Validate

SpecApply == InitApply /\ [][NextApply]_vars

(***************************************************************************)
(* Calls of the name functions and of the Auto-Mapper on a new preset.     *)
(***************************************************************************)
\* most pieces in a bone name
MaxPieces == 3

\* most characters in an argument of calculate_similarity
MaxStr == 3

\* pieces of bone names: prefixes of the prefix list, separators, letters
NamePieces ==
    { <<"d","e","f","-">>, <<"i","k","-">>, <<"R","i","g",".">>,
      <<"_">>, <<"-">>, <<".">>, <<":">>, <<" ">>, <<"a">>, <<"L">> }

RECURSIVE Concat(_)
Concat(pieces) ==
    IF pieces = <<>> THEN <<>> ELSE Head(pieces) \o Concat(Tail(pieces))

\* the bone names, as character sequences
BoneNames ==
    { Concat(pieces) :
      pieces \in UNION { [1..k -> NamePieces] : k \in 0..MaxPieces } }

\* the arguments of calculate_similarity
Strings == UNION { [1..k -> {"a", "b"}] : k \in 0..MaxStr }

\* side tokens in front of a name and behind it, and the names between
SidePrefixes ==
    { <<>>, <<"l","_">>, <<"l","e","f","t",".">>, <<"r","-">>,
      <<"r","i","g","h","t","_">>, <<"L","_">> }
SideStems == { <<>>, <<"a","r","m">>, <<"L","e","g">> }
SideSuffixes ==
    { <<>>, <<"-","l">>, <<".","l","e","f","t">>, <<"_","r">>,
      <<"_","r","i","g","h","t">>, <<".","R">> }

\* the arguments of normalize_side_suffix
SideProbes ==
    { [NoProbe EXCEPT !.fn = "side", !.x = front \o stem \o back] :
      front \in SidePrefixes, stem \in SideStems, back \in SideSuffixes }

NormalizeProbes ==
    { [NoProbe EXCEPT !.fn = "normalize", !.x = x] : x \in BoneNames }

SimilarityProbes ==
    { [NoProbe EXCEPT !.fn = "similarity", !.x = x, !.y = y] :
      x \in Strings, y \in Strings }

\* a bone and a skeleton whose names have no character in common with it
UnlikeSources == { "jaw" }
UnlikeTargets == { "neck", "hip" }

MatchProbes ==
    { [NoProbe EXCEPT !.fn = "find_best_match", !.source_bone = source_bone,
                      !.target_bones = target_bones, !.threshold = threshold] :
      source_bone \in SourcePool, target_bones \in TargetLists,
      threshold \in Thresholds \cup {StrictThreshold} }
    \cup
    { [NoProbe EXCEPT !.fn = "find_best_match", !.source_bone = source_bone,
                      !.target_bones = target_bones, !.threshold = C060] :
      source_bone \in HumanoidSources,
      target_bones \in InjectiveLists(HumanoidTargets) }
    \cup
    { [NoProbe EXCEPT !.fn = "find_best_match", !.source_bone = source_bone,
                      !.target_bones = target_bones, !.threshold = threshold] :
      source_bone \in UnlikeSources,
      target_bones \in InjectiveLists(UnlikeTargets),
      threshold \in Thresholds }

AutoMapProbes ==
    { [NoProbe EXCEPT !.fn = "auto_map", !.source_bones = source_bones,
                      !.target_bones = target_bones, !.threshold = C060] :
      source_bones \in InjectiveLists(HumanoidSources),
      target_bones \in InjectiveLists(HumanoidTargets) }
    \cup
    { [NoProbe EXCEPT !.fn = "auto_map", !.source_bones = source_bones,
                      !.target_bones = target_bones,
                      !.threshold = StrictThreshold] :
      source_bones \in SourceLists, target_bones \in TargetLists }

InitMatch ==
    /\ probe \in NormalizeProbes \cup SimilarityProbes \cup MatchProbes
                 \cup AutoMapProbes \cup SideProbes
    /\ answer = NoAnswer
    /\ NoLifecycleState
    /\ NoClipState
    /\ NoApplyState
    /\ NoStoreState
    /\ NoCacheState

\* the call `call` returns `result`
Returns(call, result) ==
    /\ call \notin DOMAIN answer
    /\ answer' = answer @@ (call :> result)
    /\ UNCHANGED <<probe, lifecycle_vars, clip_vars, apply_vars, store_vars, cache_vars>>

\* normalize_bone_name(x), then normalize_bone_name of what it returned
Normalize ==
    /\ probe.fn = "normalize"
    /\ \/ Returns("once", normalize_bone_name(probe.x))
       \/ /\ "once" \in DOMAIN answer
          /\ Returns("twice", normalize_bone_name(answer["once"]))

\* calculate_similarity(x, y), calculate_similarity(y, x),
\* calculate_similarity(x, x)
Similarity ==
    /\ probe.fn = "similarity"
    /\ \/ Returns("xy", calculate_similarity(probe.x, probe.y))
       \/ Returns("yx", calculate_similarity(probe.y, probe.x))
       \/ Returns("xx", calculate_similarity(probe.x, probe.x))

\* find_best_match(source_bone, target_bones, threshold)
FindBestMatch ==
    /\ probe.fn = "find_best_match"
    /\ Returns("result",
               find_best_match(probe.source_bone, probe.target_bones,
                               probe.threshold))

\* auto_map_bones on a preset just created for the two skeletons
AutoMapNew ==
    /\ probe.fn = "auto_map"
    /\ Returns("result",
               auto_map_bones(create_bone_mapping(probe.source_bones,
                                                  probe.target_bones, 1),
                              probe.source_bones, probe.target_bones,
                              probe.threshold, TRUE, 2))

\* normalize_side_suffix(x)
ExtractSide ==
    /\ probe.fn = "side"
    /\ Returns("result", normalize_side_suffix(probe.x))

NextMatch ==
    Normalize \/ Similarity \/ FindBestMatch \/ AutoMapNew \/ ExtractSide

SpecMatch == InitMatch /\ [][NextMatch]_vars

(***************************************************************************)
(* Properties of the Auto-Mapper.                                          *)
(***************************************************************************)
\* C1: in one auto_map run, two distinct source bones that the run maps
\* receive distinct target bones.
C1_RunIsInjective ==
    last.op = "auto_map" =>
        \A i, j \in 1..Len(last.assigned) :
            last.assigned[i].source_bone # last.assigned[j].source_bone =>
                last.assigned[i].target_bone # last.assigned[j].target_bone

\* a run that maps two source bones, the later of which would have been
\* given the earlier one's target had that target still been available
C1_Witness ==
    /\ last.op = "auto_map"
    /\ \E i, j \in 1..Len(last.assigned) :
          /\ i < j
          /\ last.assigned[i].source_bone # last.assigned[j].source_bone
          /\ find_best_match(last.assigned[j].source_bone, target_skeleton,
                             last.threshold).match
                 = Some(last.assigned[i].target_bone)

\* C2: after auto_map with preserve_existing = true, every mapping that had
\* confidence 1.0 before the call is still in the preset with the same
\* source_bone and the same target_bone.
C2_ManualMappingsPreserved ==
    (last.op = "auto_map" /\ last.preserve_existing) =>
        \A i \in 1..Len(last.pre) :
            last.pre[i].confidence = C100 =>
                \E k \in 1..Len(preset.mappings) :
                    /\ preset.mappings[k].source_bone = last.pre[i].source_bone
                    /\ preset.mappings[k].target_bone = last.pre[i].target_bone

\* a preserving run over a source list that names a manually mapped bone,
\* which the matcher alone would have mapped elsewhere, and that maps others
C2_Witness ==
    /\ last.op = "auto_map"
    /\ last.preserve_existing
    /\ last.mapped_count >= 1
    /\ \E i \in 1..Len(last.pre) :
          /\ last.pre[i].confidence = C100
          /\ InList(last.pre[i].source_bone, source_skeleton)
          /\ LET m == find_best_match(last.pre[i].source_bone, target_skeleton,
                                      last.threshold).match
             IN  m.found /\ m.value # last.pre[i].target_bone

\* C16: in every state of the preset lifecycle (add_mapping, remove_mapping,
\* auto_map with any arguments, saving, loading back) no two mappings of the
\* preset have the same source_bone.
C16_SourceBoneUnique ==
    \A i, j \in 1..Len(preset.mappings) :
        preset.mappings[i].source_bone = preset.mappings[j].source_bone => i = j

\* a preset auto-mapped from a source list that names a bone twice has been
\* saved and loaded back, with two mappings
C16_Witness ==
    /\ last.op = "load"
    /\ load_result.success
    /\ ~IsInjective(source_skeleton)
    /\ preset.auto_mapped_count >= 1
    /\ Len(preset.mappings) >= 2

\* C18: a preset read back from its own JSON document equals the preset in
\* every field: from_json(to_json(p)) = p for every preset of the lifecycle,
\* and the preset loaded from a file is the preset the file was saved from.
C18_PresetRoundTrip ==
    /\ BoneMappingPreset_from_json(BoneMappingPreset_to_json(preset), now) = preset
    /\ (last.op = "load" /\ load_result.success) => preset = mapping_file.saved

\* a preset with a mapping of confidence below 1.0, modified after it was
\* created, has been saved and loaded back
C18_Witness ==
    /\ last.op = "load"
    /\ load_result.success
    /\ preset.modified_date > preset.created_date
    /\ preset.mapped_count >= 1
    /\ \E i \in 1..Len(preset.mappings) : preset.mappings[i].confidence # One

(***************************************************************************)
(* Properties of the Clip Model.                                           *)
(***************************************************************************)
\* C3: a clip read back from its own JSON document equals the clip field for
\* field: from_json(to_json(c)) = c, also for a clip with no bone track.
C3_ClipRoundTrip ==
    loaded_clip.present => loaded_clip.value = stored_clip.value

\* a clip with a track, a curve with a modifier and two keyframes whose
\* handles differ has been written and read back
C3_Witness ==
    /\ loaded_clip.present
    /\ \E i \in 1..Len(stored_clip.value.bones) :
          \E k \in 1..Len(stored_clip.value.bones[i].fcurves) :
              LET fc == stored_clip.value.bones[i].fcurves[k]
              IN  /\ Len(fc.keyframes) >= 2
                  /\ fc.modifiers.items # <<>>
                  /\ fc.keyframes[1].handle_left # fc.keyframes[1].handle_right

\* the clip with zero bone tracks has been written and read back
C3_WitnessEmpty ==
    /\ loaded_clip.present
    /\ stored_clip.value.bones = <<>>

\* C15: loading a clip file whose document holds an unrecognized enum token
\* (interpolation, handle type or extrapolation) fails and yields no clip.
C15_UnknownTokenRejected ==
    (/\ load_result.loaded
     /\ json_text.present
     /\ json_text.value # Malformed
     /\ EnumTokens(json_text.value) \cap ForeignTokens # {}) =>
        /\ ~load_result.success
        /\ ~loaded_clip.present

(***************************************************************************)
(* Properties of the Retargeting Engine and the Validator.                 *)
(***************************************************************************)
\* the call went as far as the loop over the tracks
Applied == outcome.op = "apply" /\ outcome.proceeded

Tracks == clip.value.bones

\* the mapping's entry for the bone of a track
Entry(track) == find_target_bone(bone_map.value, track.bone_name)

HasEntry(track) == Entry(track).found

\* the entry names a bone of the target armature
Resolves(track) == HasEntry(track) /\ Entry(track).value \in armature.bones

\* the keyframe point carries every field of the keyframe
SamePoint(point, kf) ==
    /\ point.co = <<kf.frame, kf.value>>
    /\ point.interpolation = kf.interpolation
    /\ point.handle_left = kf.handle_left.items
    /\ point.handle_right = kf.handle_right.items
    /\ point.handle_left_type = kf.handle_left_type
    /\ point.handle_right_type = kf.handle_right_type

\* the destination curve reproduces the source curve
SameCurve(dest, fc) ==
    /\ dest.data_path = fc.data_path
    /\ dest.array_index = fc.array_index
    /\ dest.extrapolation = fc.extrapolation
    /\ Len(dest.keyframe_points) = Len(fc.keyframes)
    /\ \A m \in 1..Len(fc.keyframes) : SamePoint(dest.keyframe_points[m], fc.keyframes[m])

\* every track is mapped to the bone of its own name, which the armature has
IdentityMapping ==
    \A i \in 1..Len(Tracks) :
        /\ Entry(Tracks[i]) = Some(Tracks[i].bone_name)
        /\ Tracks[i].bone_name \in armature.bones

C5_UnmappedTrackSkipped ==
    Applied =>
        \A i \in 1..Len(Tracks) :
            ~HasEntry(Tracks[i]) =>
                /\ \E w \in 1..Len(outcome.warnings) :
                       outcome.warnings[w] =
                           Format("No mapping for source bone: {}",
                                  <<Tracks[i].bone_name>>)
                /\ \A a \in 1..Len(outcome.applied) :
                       outcome.applied[a].bone_name # Tracks[i].bone_name
                /\ \A j \in 1..Len(Tracks) : Resolves(Tracks[j]) =>
                       \A k \in 1..Len(Tracks[j].fcurves) :
                           /\ \E a \in 1..Len(outcome.applied) :
                                  outcome.applied[a] =
                                      [bone_name |-> Tracks[j].bone_name,
                                       fcurve |-> k]
                           /\ \E d \in 1..Len(outcome.fcurves) :
                                  /\ outcome.fcurves[d].data_path =
                                         [Tracks[j].fcurves[k].data_path
                                             EXCEPT !.bone = Entry(Tracks[j]).value]
                                  /\ outcome.fcurves[d].array_index =
                                         Tracks[j].fcurves[k].array_index

\* a clip with an unmapped track before a mapped track that has curves
C5_Witness ==
    /\ Applied
    /\ Len(Tracks) >= 2
    /\ ~HasEntry(Tracks[1])
    /\ Resolves(Tracks[2])
    /\ Len(Tracks[2].fcurves) >= 2
    /\ Len(outcome.fcurves) >= 2

\* the warning that a track contributes, <<>> when it contributes none
WarningsOfTrack(track) ==
    IF ~HasEntry(track)
    THEN <<Format("No mapping for source bone: {}", <<track.bone_name>>)>>
    ELSE IF Entry(track).value \notin armature.bones
    THEN <<Format("Target bone not found in armature: {} (mapped from {})",
                  <<Entry(track).value, track.bone_name>>)>>
    ELSE <<>>

\* the warnings of all tracks, in track order
RECURSIVE WarningsOfTracks(_)
WarningsOfTracks(i) ==
    IF i > Len(Tracks) THEN <<>>
    ELSE WarningsOfTrack(Tracks[i]) \o WarningsOfTracks(i + 1)

\* C6: the call reports success exactly when at least one curve was applied,
\* and in both cases returns every warning accumulated over the tracks.
C6_SuccessIffCurveApplied ==
    outcome.op = "apply" =>
        /\ outcome.success <=> outcome.fcurves_created >= 1
        /\ outcome.fcurves_created = Len(outcome.applied)
        /\ outcome.proceeded => outcome.warnings = WarningsOfTracks(1)
        /\ ~outcome.proceeded => outcome.warnings = <<>>

\* a call that applied no curve and returned the warnings of two tracks
C6_Witness ==
    /\ Applied
    /\ ~outcome.success
    /\ Len(outcome.warnings) >= 2

\* a call that applied curves and returned a warning as well
C6_WitnessSuccess ==
    /\ Applied
    /\ outcome.success
    /\ Len(outcome.warnings) >= 1

Validated == outcome.op = "validate"

Hundred == Frac(100, 1)

BothListsEmpty ==
    /\ outcome.validation.unmapped_bones = <<>>
    /\ outcome.validation.missing_target_bones = <<>>

\* C7 as amended: coverage_percentage lies in [0, 100], and it equals 100
\* exactly when the clip has at least one track and both the unmapped list
\* and the missing-target list are empty.
C7_CoverageRange ==
    Validated =>
        /\ FracLE(Zero, outcome.validation.coverage_percentage)
        /\ FracLE(outcome.validation.coverage_percentage, Hundred)
        /\ outcome.validation.coverage_percentage = Hundred
               <=> (outcome.validation.total_bones > 0 /\ BothListsEmpty)

\* a clip of two tracks, both mapped onto bones of the armature
C7_Witness ==
    /\ Validated
    /\ outcome.validation.total_bones >= 2
    /\ BothListsEmpty
    /\ outcome.validation.coverage_percentage = Hundred

\* C7 as stated: coverage_percentage equals 100 exactly when both lists are
\* empty.  A clip without tracks has both lists empty and coverage 0.
C7_AsStated ==
    Validated =>
        /\ FracLE(Zero, outcome.validation.coverage_percentage)
        /\ FracLE(outcome.validation.coverage_percentage, Hundred)
        /\ outcome.validation.coverage_percentage = Hundred <=> BothListsEmpty

\* the entries that the tracks from the i-th on put on one of the lists
RECURSIVE ListedAs(_, _)
ListedAs(class, i) ==
    IF i > Len(Tracks) THEN <<>>
    ELSE LET track == Tracks[i]
             mine == IF ~HasEntry(track) THEN "unmapped"
                     ELSE IF Entry(track).value \notin armature.bones
                     THEN "missing_target"
                     ELSE "valid"
             entry == IF mine = "unmapped" THEN track.bone_name
                      ELSE Format("{} -> {}",
                                  <<track.bone_name, Entry(track).value>>)
         IN  (IF mine = class THEN <<entry>> ELSE <<>>) \o ListedAs(class, i + 1)

\* C8: every track is on exactly one list: unmapped when the mapping has no
\* entry for its bone, else missing_target when the mapped bone is not in the
\* target armature, else valid; the lists have as many entries as the clip
\* has tracks; the result is valid exactly when unmapped and missing_target
\* are empty.
C8_Classification ==
    Validated =>
        /\ outcome.validation.unmapped_bones = ListedAs("unmapped", 1)
        /\ outcome.validation.missing_target_bones = ListedAs("missing_target", 1)
        /\ outcome.validation.valid_mappings = ListedAs("valid", 1)
        /\ Len(outcome.validation.unmapped_bones)
               + Len(outcome.validation.missing_target_bones)
               + Len(outcome.validation.valid_mappings) = Len(Tracks)
        /\ outcome.validation.total_bones = Len(Tracks)
        /\ outcome.is_valid <=> BothListsEmpty

\* the mapping Hand -> hand.R with hand.R absent from the armature: the
\* entry is on missing_target, coverage is below 100, the result is invalid
C8_Witness ==
    /\ Validated
    /\ "hand.R" \notin armature.bones
    /\ \E i \in 1..Len(outcome.validation.missing_target_bones) :
           outcome.validation.missing_target_bones[i] =
               Format("{} -> {}", <<"Hand", "hand.R">>)
    /\ outcome.validation.valid_mappings # <<>>
    /\ FracLT(outcome.validation.coverage_percentage, Hundred)
    /\ ~outcome.is_valid

\* a track mapped to a bone that the target armature lacks gets this warning
\* and none of its curves is applied
MissingTargetReported(text) ==
    Applied =>
        \A i \in 1..Len(Tracks) :
            (HasEntry(Tracks[i]) /\ Entry(Tracks[i]).value \notin armature.bones) =>
                /\ \E w \in 1..Len(outcome.warnings) :
                       outcome.warnings[w] =
                           Format(text, <<Entry(Tracks[i]).value,
                                          Tracks[i].bone_name>>)
                /\ \A a \in 1..Len(outcome.applied) :
                       outcome.applied[a].bone_name # Tracks[i].bone_name

\* C9 as amended: the warning for such a track is "Target bone not found in
\* armature: <target_bone> (mapped from <source_bone>)", and none of the
\* track's curves is applied.
C9_MissingTargetWarning ==
    MissingTargetReported("Target bone not found in armature: {} (mapped from {})")

\* a track with curves, mapped to hand.R, applied to an armature without it
C9_Witness ==
    /\ Applied
    /\ \E i \in 1..Len(Tracks) :
          /\ HasEntry(Tracks[i])
          /\ Entry(Tracks[i]).value \notin armature.bones
          /\ Tracks[i].fcurves # <<>>
    /\ outcome.success

\* C9 as stated: the warning is "Target bone not found: <target_bone> (mapped
\* from <source_bone>)".
C9_AsStated ==
    MissingTargetReported("Target bone not found: {} (mapped from {})")

\* no curve twice in the action, no frame twice on a curve
NoDuplicates(fcurves) ==
    /\ \A d, e \in 1..Len(fcurves) :
           (fcurves[d].data_path = fcurves[e].data_path
               /\ fcurves[d].array_index = fcurves[e].array_index) => d = e
    /\ \A d \in 1..Len(fcurves) :
           \A m, n \in 1..Len(fcurves[d].keyframe_points) :
               fcurves[d].keyframe_points[m].co[1]
                   = fcurves[d].keyframe_points[n].co[1] => m = n

\* C10: a second application of the same clip with the same mapping to the
\* same armature leaves the armature's action with the same curves and the
\* same keyframes per curve as the first, none duplicated or left over, and
\* returns the same applied-curve count and the same warnings.
C10_IdempotentOverwrite ==
    (Applied /\ previous.op = "apply" /\ previous.proceeded) =>
        /\ outcome.fcurves = previous.fcurves
        /\ NoDuplicates(outcome.fcurves)
        /\ Len(outcome.fcurves) <= outcome.fcurves_created
        /\ outcome.fcurves_created = previous.fcurves_created
        /\ outcome.warnings = previous.warnings

\* two applications in a row onto the action that had curves of its own,
\* with curves applied and a warning returned
C10_Witness ==
    /\ Applied
    /\ previous.op = "apply"
    /\ previous.proceeded
    /\ ~previous.create_new_action
    /\ ~outcome.create_new_action
    /\ Len(outcome.fcurves) >= 2
    /\ Len(outcome.fcurves[1].keyframe_points) >= 2
    /\ outcome.warnings # <<>>

(***************************************************************************)
(* Properties of find_best_match and of the name functions.                *)
(***************************************************************************)
Returned(fn, call) == probe.fn = fn /\ call \in DOMAIN answer

\* C11: find_best_match returns a candidate only if the candidate's
\* confidence is at least the threshold, and every mapping that an auto_map
\* run adds has a confidence of at least the threshold of the run.
C11_ThresholdRespected ==
    /\ Returned("find_best_match", "result") =>
           (answer["result"].match.found =>
                FracLE(probe.threshold, answer["result"].confidence))
    /\ Returned("auto_map", "result") =>
           \A i \in 1..Len(answer["result"].assigned) :
               FracLE(probe.threshold, answer["result"].assigned[i].confidence)

\* the run of the scenario: three humanoid bones, threshold 0.6
Scenario ==
    /\ Returned("auto_map", "result")
    /\ probe.source_bones = <<"Hips", "Spine", "LeftArm">>
    /\ probe.target_bones = <<"hips", "spine_01", "upper_arm.L">>
    /\ probe.threshold = C060

MapsTo(p, source_bone, target_bone) ==
    \E i \in 1..Len(p.mappings) :
        /\ p.mappings[i].source_bone = source_bone
        /\ p.mappings[i].target_bone = target_bone

ConfidenceOf(p, source_bone) ==
    p.mappings[IndexOfSource(p.mappings, source_bone, 1)].confidence

\* what the scenario says of LeftArm and of Spine: LeftArm is mapped to
\* upper_arm.L by the similarity path, with the confidence that path gives
\* the pair, at least 0.6; Spine is mapped to spine_01 only if the
\* similarity of the normalized names is at least 0.6
ScenarioSimilarityPath(p) ==
    /\ MapsTo(p, "LeftArm", "upper_arm.L")
    /\ FracLE(C060, ConfidenceOf(p, "LeftArm"))
    /\ ConfidenceOf(p, "LeftArm") =
           SimilarityConfidence(normalize_bone_name(Chars["LeftArm"]), "upper_arm.L")
    /\ MapsTo(p, "Spine", "spine_01") =>
           FracLE(C060, calculate_similarity(normalize_bone_name(Chars["Spine"]),
                                             normalize_bone_name(Chars["spine_01"])))

\* C12 as amended: in the scenario Hips is mapped to hips with confidence
\* 0.95, the confidence of the case-insensitive path; LeftArm and Spine as
\* the scenario says.
C12_Scenario ==
    Scenario =>
        /\ MapsTo(answer["result"].preset, "Hips", "hips")
        /\ ConfidenceOf(answer["result"].preset, "Hips") = C095
        /\ ScenarioSimilarityPath(answer["result"].preset)

\* the scenario has run and has mapped all three bones
C12_Witness ==
    /\ Scenario
    /\ answer["result"].mapped_count = 3
    /\ MapsTo(answer["result"].preset, "Spine", "spine_01")
    /\ ConfidenceOf(answer["result"].preset, "LeftArm") = Frac(38, 55)

\* C12 as stated: Hips is mapped to hips with a confidence of at least 0.9
\* through the normalized-name path, whose confidence is 0.9.
C12_AsStated ==
    Scenario =>
        /\ MapsTo(answer["result"].preset, "Hips", "hips")
        /\ FracLE(C090, ConfidenceOf(answer["result"].preset, "Hips"))
        /\ ConfidenceOf(answer["result"].preset, "Hips") = C090
        /\ ScenarioSimilarityPath(answer["result"].preset)

\* C13: normalize_bone_name is idempotent: normalizing what it returned
\* returns the same name.
C13_NormalizeIdempotent ==
    Returned("normalize", "twice") => answer["twice"] = answer["once"]

\* "def-ik-a": one prefix is stripped, the next one stays
C13_Witness ==
    /\ Returned("normalize", "twice")
    /\ probe.x = <<"d","e","f","-","i","k","-","a">>
    /\ answer["once"] = <<"i","k","_","a">>

\* C14: calculate_similarity is symmetric, and the similarity of a
\* non-empty string to itself is 1.0.
C14_SimilaritySymmetric ==
    /\ (Returned("similarity", "xy") /\ Returned("similarity", "yx")) =>
           answer["xy"] = answer["yx"]
    /\ (Returned("similarity", "xx") /\ probe.x # <<>>) => answer["xx"] = One

\* "ab" and "a": distance 1 over length 2, both ways round
C14_Witness ==
    /\ probe.fn = "similarity"
    /\ probe.x = <<"a","b">>
    /\ probe.y = <<"a">>
    /\ DOMAIN answer = {"xy", "yx", "xx"}
    /\ answer["xy"] = Frac(1, 2)

(***************************************************************************)
(* Properties of the error handling.                                       *)
(***************************************************************************)
\* C17: an application of a structurally invalid clip, here a clip with zero
\* bone tracks, fails before it changes anything: the armature with its
\* assigned action, the actions with their curves and frame range, and the
\* scene are after the call what they were before it.
C17_NoPartialWrites ==
    [][(/\ clip.value.bones = <<>>
        /\ calls' = calls + 1
        /\ outcome'.op = "apply") =>
            /\ ~outcome'.success
            /\ armature' = armature
            /\ bpy_actions' = bpy_actions
            /\ scene' = scene]_vars

\* the defects of a preset: a blank name, a blank source or target armature
\* name, two mappings of one source bone, a confidence outside [0, 1]
Defective(p) ==
    \/ IsBlank(p.name)
    \/ IsBlank(p.source_armature_name)
    \/ IsBlank(p.target_armature_name)
    \/ ~IsInjective([i \in 1..Len(p.mappings) |-> p.mappings[i].source_bone])
    \/ \E i \in 1..Len(p.mappings) : ConfidenceOutOfRange(p.mappings[i])

\* validation rejects every preset that has one of the defects
ValidatorRejectsDefects ==
    (outcome.op = "validate_preset" /\ Defective(preset)) => ~outcome.is_valid

\* the preset of a file that the load accepted has none of the defects
LoadRejectsDefects ==
    (last.op = "load" /\ load_result.success) => ~Defective(preset)

\* C19: preset validation rejects every preset with a blank name, a blank
\* source or target armature name, two mappings of one source bone or a
\* confidence outside [0, 1], and the load operation does not accept a file
\* that holds a preset with such a defect.
C19_DefectsRejected ==
    /\ ValidatorRejectsDefects
    /\ LoadRejectsDefects

(***************************************************************************)
(* The strategies of find_best_match as selections over the candidates.    *)
(***************************************************************************)
SideOf(bone) == normalize_side_suffix(normalize_bone_name(Chars[bone]))

SidesAgree(a, b) == a.side = b.side \/ a.side = "" \/ b.side = ""

\* positions of the candidates equal to the source ignoring case
EqualIgnoringCase(source_bone, target_bones) ==
    { i \in 1..Len(target_bones) :
        Lower(Chars[target_bones[i]]) = Lower(Chars[source_bone]) }

\* positions of the candidates with the source's base name and a side that
\* is the source's or unknown on either part
EqualNormalized(source_bone, target_bones) ==
    { i \in 1..Len(target_bones) :
        /\ SideOf(source_bone).base = SideOf(target_bones[i]).base
        /\ SidesAgree(SideOf(source_bone), SideOf(target_bones[i])) }

\* 0.6 + 0.25 * similarity of the normalized names, the similarity halved
\* when both sides are known and differ
Score(source_bone, target) ==
    LET similarity == calculate_similarity(normalize_bone_name(Chars[source_bone]),
                                           normalize_bone_name(Chars[target]))
        opposite == /\ SideOf(source_bone).side # ""
                    /\ SideOf(target).side # ""
                    /\ SideOf(source_bone).side # SideOf(target).side
    IN  FracAdd(C060, FracMul(C025, IF opposite THEN FracMul(C050, similarity)
                                                ELSE similarity))

\* positions of the candidates of the highest score
HighestScore(source_bone, target_bones) ==
    { i \in 1..Len(target_bones) :
        \A j \in 1..Len(target_bones) :
            FracLE(Score(source_bone, target_bones[j]),
                   Score(source_bone, target_bones[i])) }

Lowest(positions) == CHOOSE i \in positions : \A j \in positions : i <= j

\* the strategy that decides, the positions it may pick and its confidence
Strategy(source_bone, target_bones) ==
    IF \E i \in 1..Len(target_bones) : target_bones[i] = source_bone
    THEN [rank |-> 1, confidence |-> C100,
          picks |-> { i \in 1..Len(target_bones) : target_bones[i] = source_bone }]
    ELSE IF EqualIgnoringCase(source_bone, target_bones) # {}
    THEN [rank |-> 2, confidence |-> C095,
          picks |-> { Lowest(EqualIgnoringCase(source_bone, target_bones)) }]
    ELSE IF EqualNormalized(source_bone, target_bones) # {}
    THEN [rank |-> 3, confidence |-> C090,
          picks |-> { Lowest(EqualNormalized(source_bone, target_bones)) }]
    ELSE [rank |-> 4,
          confidence |-> Score(source_bone,
                               target_bones[Lowest(HighestScore(source_bone, target_bones))]),
          picks |-> HighestScore(source_bone, target_bones)]

\* the result is a candidate the strategy may pick, with its confidence
Picked(result, target_bones, strategy) ==
    /\ result.match.found
    /\ \E i \in strategy.picks : target_bones[i] = result.match.value
    /\ result.confidence = strategy.confidence

\* the best candidate is returned if its confidence reaches the threshold,
\* and nothing is returned otherwise
PickedAboveThreshold(result, target_bones, strategy, threshold) ==
    IF FracLE(threshold, strategy.confidence)
    THEN Picked(result, target_bones, strategy)
    ELSE result = NoMatch

\* what find_best_match returned, when there are candidates, is what its
\* strategies select; the best candidate of the strategies from
\* `thresholded` on is returned only if it reaches the threshold
FollowsStrategies(thresholded) ==
    (Returned("find_best_match", "result") /\ probe.target_bones # <<>>) =>
        \E strategy \in { Strategy(probe.source_bone, probe.target_bones) } :
            IF strategy.rank >= thresholded
            THEN PickedAboveThreshold(answer["result"], probe.target_bones,
                                      strategy, probe.threshold)
            ELSE Picked(answer["result"], probe.target_bones, strategy)

\* C21 as amended: find_best_match applies its strategies in strict
\* priority order: a candidate equal to the source verbatim is returned with
\* 1.0; otherwise the first candidate equal ignoring case is returned with
\* 0.95; otherwise the first candidate in list order with the source's
\* normalized base name and an equal or unknown side is the best candidate
\* with 0.9; otherwise the candidate maximizing 0.6 + 0.25 * similarity
\* (halved when both sides are known and differ) is the best candidate with
\* that value. The best candidate of the last two strategies is returned
\* only if its confidence is at least the threshold.
C21_StrategyOrder == FollowsStrategies(3)

\* every strategy has decided a call, the third one on both sides of the
\* threshold: this state is one where it decided and the threshold is 1.0
C21_Witness ==
    /\ Returned("find_best_match", "result")
    /\ probe.source_bone = "def-arm"
    /\ probe.target_bones = <<"leg", "arm_l">>
    /\ probe.threshold = StrictThreshold
    /\ Strategy(probe.source_bone, probe.target_bones).rank = 3
    /\ answer["result"] = NoMatch

\* C21 as stated: the first candidate of the normalized-name strategy is
\* returned with 0.9, whatever the threshold.
C21_AsStated == FollowsStrategies(4)

(***************************************************************************)
(* The order in which an auto_map run hands out the targets.               *)
(***************************************************************************)
\* targets of the mappings a preserving run holds back: confidence 1.0
PreservedTargets(pre, preserve_existing) ==
    IF preserve_existing
    THEN { pre[i].target_bone :
             i \in { j \in 1..Len(pre) : FracLE(C100, pre[j].confidence) } }
    ELSE {}

\* targets of the first k assignments of the run
AssignedTargets(assigned, k) == { assigned[j].target_bone : j \in 1..k }

\* target_bones, in its order, without the targets taken
Remaining(target_bones, taken) ==
    SelectSeq(target_bones, LAMBDA b : b \notin taken)

\* the list offered to the source that receives assignment k + 1
OfferedAt(k) ==
    Remaining(target_skeleton,
              PreservedTargets(last.pre, last.preserve_existing)
                  \cup AssignedTargets(last.assigned, k))

\* a preserving run passes over a source that has a mapping already, from
\* before the run or from its first k assignments
PassedOver(source_bone, k) ==
    /\ last.preserve_existing
    /\ \/ \E i \in 1..Len(last.pre) : last.pre[i].source_bone = source_bone
       \/ \E j \in 1..k : last.assigned[j].source_bone = source_bone

\* the assignments of the run from k + 1 on are the ones that the sources
\* from position i on receive, one after the other
RECURSIVE GreedyFrom(_, _)
GreedyFrom(i, k) ==
    IF i > Len(source_skeleton) THEN k = Len(last.assigned)
    ELSE IF PassedOver(source_skeleton[i], k) THEN GreedyFrom(i + 1, k)
    ELSE \E best \in { BestMatch(source_skeleton[i], OfferedAt(k), last.threshold) } :
             IF best.match.found
             THEN /\ k < Len(last.assigned)
                  /\ last.assigned[k + 1]
                         = BoneMapping(source_skeleton[i], best.match.value,
                                       best.confidence)
                  /\ GreedyFrom(i + 1, k + 1)
             ELSE GreedyFrom(i + 1, k)

\* C22: auto_map is greedy in source order: the target chosen for the i-th
\* processed source bone is find_best_match(source_i, A_i, threshold), where
\* A_i is target_bones, order preserved, without the targets of the preserved
\* mappings of confidence 1.0 and without every target assigned earlier in
\* the run; a source left without a match receives nothing.
C22_GreedyInSourceOrder ==
    last.op = "auto_map" => GreedyFrom(1, 0)

\* an earlier source has kept a target that a later source of the run would
\* have matched with a higher confidence
C22_Witness ==
    /\ last.op = "auto_map"
    /\ \E i, j \in 1..Len(last.assigned) :
          /\ i < j
          /\ \E best \in { BestMatch(last.assigned[j].source_bone,
                                     OfferedAt(i - 1), last.threshold) } :
                 /\ best.match = Some(last.assigned[i].target_bone)
                 /\ FracLT(last.assigned[i].confidence, best.confidence)
                 /\ last.assigned[j].target_bone # last.assigned[i].target_bone

(***************************************************************************)
(* The derived counters of a preset.                                       *)
(***************************************************************************)
\* C23: in every preset state reached by creation, add_mapping,
\* remove_mapping, auto_map or loading from JSON, mapped_count is the number
\* of mappings and auto_mapped_count is the number of mappings whose
\* confidence is below 1.0.
C23_CountersDerived ==
    /\ preset.mapped_count = Len(preset.mappings)
    /\ preset.auto_mapped_count
           = Cardinality({ i \in 1..Len(preset.mappings) :
                             FracLT(preset.mappings[i].confidence, C100) })

(***************************************************************************)
(* The side patterns of normalize_side_suffix, in the order of their test. *)
(***************************************************************************)
SuffixPattern(token, side) == [at |-> "end", token |-> token, side |-> side]
PrefixPattern(token, side) == [at |-> "start", token |-> token, side |-> side]

\* the Left patterns, suffixes then prefixes, before the Right patterns
LeftBeforeRight ==
    << SuffixPattern(TokL, "L"), SuffixPattern(TokLeft, "L"),
       PrefixPattern(TokL, "L"), PrefixPattern(TokLeft, "L"),
       SuffixPattern(TokR, "R"), SuffixPattern(TokRight, "R"),
       PrefixPattern(TokR, "R"), PrefixPattern(TokRight, "R") >>

\* the suffix patterns of both sides before the prefix patterns
SuffixBeforePrefix ==
    << SuffixPattern(TokL, "L"), SuffixPattern(TokLeft, "L"),
       SuffixPattern(TokR, "R"), SuffixPattern(TokRight, "R"),
       PrefixPattern(TokL, "L"), PrefixPattern(TokLeft, "L"),
       PrefixPattern(TokR, "R"), PrefixPattern(TokRight, "R") >>

\* `rest` is the name without the token of the pattern and its separator
StripsTo(name, pattern, rest) ==
    \E sep \in SideSeparators :
        IF pattern.at = "end"
        THEN name = rest \o <<sep>> \o pattern.token
        ELSE name = pattern.token \o <<sep>> \o rest

PatternMatches(name, pattern) ==
    \E k \in 0..Len(name) :
        \/ StripsTo(name, pattern, SubSeq(name, 1, k))
        \/ StripsTo(name, pattern, SubSeq(name, k + 1, Len(name)))

\* the result is that of the first pattern of the list that matches the
\* name; a name that no pattern matches is returned with no side
FirstPatternDecides(name, patterns, result, unmatched) ==
    IF \E i \in 1..Len(patterns) : PatternMatches(name, patterns[i])
    THEN \E i \in 1..Len(patterns) :
             /\ PatternMatches(name, patterns[i])
             /\ \A j \in 1..(i - 1) : ~PatternMatches(name, patterns[j])
             /\ result.side = patterns[i].side
             /\ StripsTo(name, patterns[i], result.base)
    ELSE result = [base |-> unmatched, side |-> ""]

\* C24 as amended: extract_side tests the Left patterns (suffix, then
\* prefix) before the Right patterns (suffix, then prefix) on the lowercased
\* name and uses the first match: "l_arm_r" is tagged Left with only the
\* prefix stripped; a name that matches no pattern is returned lowercased,
\* otherwise unchanged, with side None.
C24_FirstPatternWins ==
    Returned("side", "result") =>
        FirstPatternDecides(Lower(probe.x), LeftBeforeRight, answer["result"],
                            Lower(probe.x))

\* "l_arm_r" has been given side Left and base "arm_r"
C24_Witness ==
    /\ Returned("side", "result")
    /\ probe.x = <<"l","_","a","r","m","_","r">>
    /\ answer["result"] = [base |-> <<"a","r","m","_","r">>, side |-> "L"]

\* C24 as stated: the patterns are tested in the order suffix-Left,
\* suffix-Right, prefix-Left, prefix-Right, so that "l_arm_r" is tagged
\* Right with only the suffix stripped; a name that matches no pattern is
\* returned unchanged with side None.
C24_AsStated ==
    Returned("side", "result") =>
        FirstPatternDecides(Lower(probe.x), SuffixBeforePrefix, answer["result"],
                            probe.x)

(***************************************************************************)
(* The targets of the whole preset across an auto_map run.                 *)
(***************************************************************************)
\* no two mappings of the list have the same target bone
InjectiveOnTargets(mappings) ==
    \A i, j \in 1..Len(mappings) :
        mappings[i].target_bone = mappings[j].target_bone => i = j

\* C25: an auto_map run leaves the whole preset injective on targets if it
\* was so before the run, whatever preserve_existing is and whatever the
\* confidences and the source bones of the mappings the preset held.
C25_PresetStaysInjective ==
    (last.op = "auto_map" /\ InjectiveOnTargets(last.pre)) =>
        InjectiveOnTargets(preset.mappings)

(***************************************************************************)
(* A source bone that resembles no target.                                 *)
(***************************************************************************)
\* the normalized names of the source and of every candidate have
\* similarity 0
ResemblesNone(source_bone, target_bones) ==
    /\ target_bones # <<>>
    /\ \A i \in 1..Len(target_bones) :
           calculate_similarity(normalize_bone_name(Chars[source_bone]),
                                normalize_bone_name(Chars[target_bones[i]])) = Zero

\* C26: with threshold 0.6 a source bone whose normalized name has
\* similarity 0 to every available target is left unmapped: find_best_match
\* returns no match although the available list is not empty.
C26_WeakMatchesFiltered ==
    (Returned("find_best_match", "result")
        /\ ResemblesNone(probe.source_bone, probe.target_bones)
        /\ probe.threshold = C060) =>
        ~answer["result"].match.found

(***************************************************************************)
(* The validator's report and the retargeting of the same clip with the    *)
(* same mapping to the same armature.                                      *)
(***************************************************************************)
\* the clip has a curve
HasCurve == \E i \in 1..Len(Tracks) : Tracks[i].fcurves # <<>>

\* a mapping reported valid is applied with success and without warnings,
\* when `applicable` holds; the retargeting warns once for every unmapped
\* bone and every missing target bone of the report
Agree(report, result, applicable) ==
    /\ (report.is_valid /\ applicable) =>
           (result.success /\ result.warnings = <<>>)
    /\ Len(result.warnings)
           = Len(report.validation.unmapped_bones)
                 + Len(report.validation.missing_target_bones)

\* C27 as amended: the validator and the retargeting engine agree on every
\* call of apply_mapping that gets as far as its tracks: if validate reports
\* the mapping as overall valid and the clip has at least one curve, then
\* apply_mapping reports success with an empty warning list, and in general
\* the number of warnings apply_mapping emits is |unmapped| +
\* |missing_target| of the validation report.
C27_ValidatorAgrees ==
    /\ (outcome.op = "apply" /\ outcome.proceeded /\ previous.op = "validate")
           => Agree(previous, outcome, HasCurve)
    /\ (outcome.op = "validate" /\ previous.op = "apply" /\ previous.proceeded)
           => Agree(outcome, previous, HasCurve)

\* a clip of two tracks validated and applied with one warning of each kind
C27_Witness ==
    /\ outcome.op = "apply"
    /\ outcome.proceeded
    /\ previous.op = "validate"
    /\ Len(previous.validation.unmapped_bones) = 1
    /\ Len(previous.validation.missing_target_bones) = 1
    /\ Len(outcome.warnings) = 2

\* a mapping reported valid has been applied with success, without warnings
C27_WitnessValid ==
    /\ outcome.op = "apply"
    /\ previous.op = "validate"
    /\ previous.is_valid
    /\ Len(Tracks) = 2
    /\ outcome.success
    /\ outcome.warnings = <<>>

\* C27 as stated: if validate reports the mapping as overall valid then
\* apply_mapping reports success with an empty warning list, and the number
\* of warnings apply_mapping emits is |unmapped| + |missing_target| of the
\* validation report.
C27_AsStated ==
    /\ (outcome.op = "apply" /\ previous.op = "validate")
           => Agree(previous, outcome, TRUE)
    /\ (outcome.op = "validate" /\ previous.op = "apply")
           => Agree(outcome, previous, TRUE)

(***************************************************************************)
(* The curves of the destination action and the curves counted as applied. *)
(***************************************************************************)
\* the destination curve carries the source curve of the track, on the data
\* path of the bone that the track is mapped to
Carries(dest, track, fc) ==
    /\ dest.data_path = remap_bone_name_in_datapath(fc.data_path, track.bone_name,
                                                    Entry(track).value)
    /\ dest.array_index = fc.array_index
    /\ dest.extrapolation = fc.extrapolation
    /\ Len(dest.keyframe_points) = Len(fc.keyframes)
    /\ \A m \in 1..Len(fc.keyframes) :
           SamePoint(dest.keyframe_points[m], fc.keyframes[m])

\* C28: the applied-curve count that apply_mapping reports is the number of
\* curves on the destination after the call, and every applied source curve
\* has its keyframes on its destination curve, also when the mapping sends
\* two source bones of the clip to the same target bone.
C28_AppliedCurvesSurvive ==
    Applied =>
        /\ outcome.fcurves_created = Len(outcome.fcurves)
        /\ \A a \in 1..Len(outcome.applied) : \A i \in 1..Len(Tracks) :
               Tracks[i].bone_name = outcome.applied[a].bone_name =>
                   \E d \in 1..Len(outcome.fcurves) :
                       Carries(outcome.fcurves[d], Tracks[i],
                               Tracks[i].fcurves[outcome.applied[a].fcurve])

(***************************************************************************)
(* The list caches: core/services/bone_mapping_service.py and              *)
(* core/services/animation_data_service.py, which are the same code on     *)
(* their own globals and their own directory.                              *)
(***************************************************************************)
\* last second of the clock at which the model still lets time pass
MaxTime == 4

\* _CACHE_DURATION = 2.0
_CACHE_DURATION == 2

Services == { "bone_mappings", "animations" }

\* names of the presets or clips that are saved, in sorted order
SortedNames == << "Run", "Walk" >>

SavedNames == { SortedNames[i] : i \in 1..Len(SortedNames) }

\* the entries of the directory: (name read from the file, its path),
\* sorted by name; a file saved under the default path has its name as stem
ReadDirectory(service, files) ==
    LET names == SelectSeq(SortedNames, LAMBDA n : n \in files)
    IN  [i \in 1..Len(names) |-> <<names[i], <<service, names[i], ".json">>>>]

\* invalidate_mapping_list_cache / invalidate_animation_list_cache
invalidate_list_cache == NoListCache

\* the cache is left as it is
save_to_fileMutant(files, globals, name, default_directory) ==
    [success |-> TRUE,
     files |-> IF default_directory THEN files \cup {name} ELSE files,
     globals |-> globals]

\* save_bone_mapping_to_file / save_animation_data_to_file when write_text
\* succeeds: the file is written under the default directory or under the
\* path given, then the cache is invalidated
save_to_file(files, globals, name, default_directory) ==
    [success |-> TRUE,
     files |-> IF default_directory THEN files \cup {name} ELSE files,
     globals |-> invalidate_list_cache]

\* delete_bone_mapping_file / delete_animation_data_file
delete_file(files, globals, name) ==
    IF name \notin files
    THEN [success |-> FALSE, files |-> files, globals |-> globals]
    ELSE [success |-> TRUE, files |-> files \ {name},
          globals |-> invalidate_list_cache]

\* list_available_bone_mappings / list_available_animations
list_available(service, files, globals, use_cache, current_time) ==
    IF /\ use_cache
       /\ globals.cache.present
       /\ current_time - globals.time < _CACHE_DURATION
    THEN [value |-> globals.cache.value, cached |-> TRUE, globals |-> globals]
    ELSE [value |-> ReadDirectory(service, files), cached |-> FALSE,
          globals |-> [cache |-> [present |-> TRUE,
                                  value |-> ReadDirectory(service, files)],
                       time |-> current_time]]

InitCache ==
    /\ directory \in SUBSET SavedNames
    /\ list_cache = NoListCache
    /\ wall_time = 1
    /\ cache_history \in { [NoHistory EXCEPT !.service = s] : s \in Services }
    /\ service_call = NoServiceCall
    /\ NoLifecycleState
    /\ NoClipState
    /\ NoApplyState
    /\ NoProbeState
    /\ NoStoreState

\* a save whose write succeeds
Save(name, default_directory) ==
    /\ \E r \in { save_to_file(directory, list_cache, name, default_directory) } :
           /\ directory' = r.files
           /\ list_cache' = r.globals
           /\ service_call' = [NoServiceCall EXCEPT !.op = "save",
                                                    !.success = r.success]
    /\ cache_history' = [cache_history EXCEPT !.written = TRUE]
    /\ UNCHANGED <<wall_time, lifecycle_vars, clip_vars, apply_vars, probe_vars,
                   store_vars>>

\* a save whose write raises: the except branch returns the failure
SaveFails ==
    /\ service_call' = [NoServiceCall EXCEPT !.op = "save"]
    /\ UNCHANGED <<directory, list_cache, wall_time, cache_history,
                   lifecycle_vars, clip_vars, apply_vars, probe_vars, store_vars>>

Delete(name) ==
    /\ \E r \in { delete_file(directory, list_cache, name) } :
           /\ directory' = r.files
           /\ list_cache' = r.globals
           /\ service_call' = [NoServiceCall EXCEPT !.op = "delete",
                                                    !.success = r.success]
           /\ cache_history' = [cache_history EXCEPT
                                   !.written = @ \/ r.success]
    /\ UNCHANGED <<wall_time, lifecycle_vars, clip_vars, apply_vars, probe_vars,
                   store_vars>>

List(use_cache) ==
    /\ \E r \in { list_available(cache_history.service, directory, list_cache,
                                 use_cache, wall_time) } :
           /\ list_cache' = r.globals
           /\ service_call' =
                  [op |-> "list", success |-> TRUE, use_cache |-> use_cache,
                   value |-> r.value, cached |-> r.cached,
                   listing |-> ReadDirectory(cache_history.service, directory),
                   built |-> cache_history.built,
                   age |-> wall_time - cache_history.built_at,
                   written |-> cache_history.written]
           /\ cache_history' =
                  IF r.cached THEN cache_history
                  ELSE [cache_history EXCEPT !.built = TRUE,
                                             !.built_at = wall_time,
                                             !.written = FALSE]
    /\ UNCHANGED <<directory, wall_time, lifecycle_vars, clip_vars, apply_vars,
                   probe_vars, store_vars>>

\* a second passes
Tick ==
    /\ wall_time <= MaxTime
    /\ wall_time' = wall_time + 1
    /\ UNCHANGED <<directory, list_cache, cache_history, service_call,
                   lifecycle_vars, clip_vars, apply_vars, probe_vars, store_vars>>

NextCache ==
    \/ \E name \in SavedNames, default_directory \in BOOLEAN :
           Save(name, default_directory)
    \/ SaveFails
    \/ \E name \in SavedNames : Delete(name)
    \/ \E use_cache \in BOOLEAN : List(use_cache)
    \/ Tick

SpecCache == InitCache /\ [][NextCache]_vars

\* C29: the list cache never hides the service's own writes: every list call
\* returns the entries of the directory as it is at the call, so a list
\* taken after a successful save holds the saved file and one taken after a
\* successful delete does not hold the deleted one, also with use_cache =
\* true inside the 2-second window; a cached list is returned only if it was
\* asked for, no successful save or delete happened since it was built, and
\* it is younger than 2 seconds. Both services are covered.
C29_CacheNeverHidesWrites ==
    service_call.op = "list" =>
        /\ service_call.value = service_call.listing
        /\ service_call.cached =>
               /\ service_call.use_cache
               /\ service_call.built
               /\ ~service_call.written
               /\ service_call.age < _CACHE_DURATION

\* a list asked for with use_cache = true, less than 2 seconds after the
\* list was built and after a save into the directory, has re-read the
\* directory and holds the saved file
C29_Witness ==
    /\ service_call.op = "list"
    /\ service_call.use_cache
    /\ service_call.built
    /\ service_call.age < _CACHE_DURATION
    /\ service_call.written
    /\ ~service_call.cached
    /\ Len(service_call.value) = 2

\* a list has been answered from the cache
C29_WitnessCached ==
    /\ service_call.op = "list"
    /\ service_call.cached
    /\ service_call.age = 1
    /\ Len(service_call.value) = 1

(***************************************************************************)
(* What an auto_map run leaves alone.                                      *)
(***************************************************************************)
\* mapping i of the preset is as it was before the run
Untouched(i) == i <= Len(preset.mappings) /\ preset.mappings[i] = last.pre[i]

\* C30: auto_map touches only what it is asked to map: every mapping whose
\* source_bone is not in source_bones is left unchanged (same target, same
\* confidence, same position in the list); every mapping the run adds or
\* replaces has its source in source_bones and its target in target_bones;
\* with preserve_existing = true every mapping the preset held, of any
\* confidence, is left unchanged.
C30_OnlyAskedSourcesTouched ==
    last.op = "auto_map" =>
        /\ \A i \in 1..Len(last.pre) :
               ~InList(last.pre[i].source_bone, source_skeleton) => Untouched(i)
        /\ \A i \in 1..Len(last.pre) : last.preserve_existing => Untouched(i)
        /\ \A i \in 1..Len(preset.mappings) :
               (i > Len(last.pre) \/ ~Untouched(i)) =>
                   /\ InList(preset.mappings[i].source_bone, source_skeleton)
                   /\ InList(preset.mappings[i].target_bone, target_skeleton)
        /\ \A a \in 1..Len(last.assigned) :
               /\ InList(last.assigned[a].source_bone, source_skeleton)
               /\ InList(last.assigned[a].target_bone, target_skeleton)

\* a run that does not preserve has added a mapping and has left alone the
\* mapping of a bone that is not one of its source bones
C30_Witness ==
    /\ last.op = "auto_map"
    /\ ~last.preserve_existing
    /\ last.mapped_count >= 1
    /\ \E i \in 1..Len(last.pre) :
          /\ ~InList(last.pre[i].source_bone, source_skeleton)
          /\ Untouched(i)

\* a preserving run has added a mapping and has left alone a mapping of
\* confidence below 1.0 of one of its source bones
C30_WitnessPreserved ==
    /\ last.op = "auto_map"
    /\ last.preserve_existing
    /\ last.mapped_count >= 1
    /\ \E i \in 1..Len(last.pre) :
          /\ InList(last.pre[i].source_bone, source_skeleton)
          /\ FracLT(last.pre[i].confidence, C100)
          /\ Untouched(i)

=============================================================================
